---- MODULE Spec2Model ----
(***************************************************************************)
(* The interaction dispatch engine of react-xr (InteractionManager):       *)
(* the object registry, ray casting with ancestor resolution, per-         *)
(* handedness hover tracking, event dispatch with stopPropagation and the  *)
(* select-miss notification.  One action per call-in of the host: the      *)
(* frame tick, the six discrete input events, addInteraction and           *)
(* removeInteraction, and the controller list changing.  A call-in runs    *)
(* to completion, handlers included, so each action computes the whole     *)
(* call-in over a record s of the mutable objects it touches.              *)
(***************************************************************************)
EXTENDS Integers, Sequences, FiniteSets, TLC

VARIABLES
  interactions,          \* the registry: Map<Object3D, Record<type, handler[]>>
  hoverState,            \* per handedness: Map<Object3D, hover event>
  hoverClosest,          \* per handedness: Intersection | undefined
  controllers,           \* the live controller list of XRContext
  app,                   \* the application: the handlers it mounts, whether it
                         \* passes a global onSelectMissed, its devices
  grabbingController,    \* RayGrab: the controller that holds the group
  previousTransform,     \* RayGrab: the inverse of its pose at the last step
  groupMatrix,           \* RayGrab: the transform of the grabbed group
  session,               \* gl.xr.getSession(): the running XRSession, if any
  sessionsStarted,       \* how many sessions the host has started
  hitTestSource,         \* useHitTest: the stored XRHitTestSource | undefined
  hitTestSourceRequested, \* useHitTest: whether a source has been requested
  hitMatrix,             \* useHitTest: the matrix handed to the callback
  reported,              \* the source of the hit last handed to the callback
  pending,               \* the requests of useHitTest the host has in flight
  endListeners           \* the sessions carrying the 'end' listener of useHitTest

grabVars == <<grabbingController, previousTransform, groupMatrix>>

hitVars == <<session, sessionsStarted, hitTestSource, hitTestSourceRequested,
             hitMatrix, reported, pending, endListeners>>

vars == <<interactions, hoverState, hoverClosest, controllers, app,
          grabbingController, previousTransform, groupMatrix,
          session, sessionsStarted, hitTestSource, hitTestSourceRequested,
          hitMatrix, reported, pending, endListeners>>

----------------------------------------------------------------------------
(* Bounds *)

\* Longest list of geometric intersections one ray produces.
MaxRay == 2

\* How many XR sessions the host starts, one after the other.
MaxSessions == 2

----------------------------------------------------------------------------
(* The scene graph (external): B is a group holding group A, which holds   *)
(* mesh L; mesh K is in A too, or, in an application that says so, in B    *)
(* beside A.  Only meshes have geometry a ray can cross; a ray may cross   *)
(* the same mesh more than once (front and back face).                     *)

Undefined == "undefined"

Nodes == {"B", "A", "L", "K"}

Meshes == {"L", "K"}

parent(n) == CASE n = "L" -> "A"
               [] n = "K" -> app.parentOfK
               [] n = "A" -> "B"
               [] OTHER   -> Undefined

XRHandedness == {"left", "right", "none"}

ControllerIds == {0, 1}

XRInteractionWithIntersectionType ==
  {"onHover", "onSelectStart", "onSelectEnd", "onSelect",
   "onSqueeze", "onSqueezeEnd", "onSqueezeStart"}

XRInteractionNoIntersectionType == {"onBlur", "onSelectMissed"}

XRInteractionType ==
  XRInteractionWithIntersectionType \cup XRInteractionNoIntersectionType

\* The interaction each discrete device event triggers (useXREvent wiring).
DeviceEvents ==
  {"onSelect", "onSelectStart", "onSelectEnd",
   "onSqueeze", "onSqueezeEnd", "onSqueezeStart"}

\* What the controller's ray crosses, nearest first: the device pose and the
\* placement of the geometry are inputs of each call-in.
RECURSIVE SeqsUpTo(_, _)
SeqsUpTo(S, n) ==
  IF n = 0 THEN {<<>>}
  ELSE LET shorter == SeqsUpTo(S, n - 1)
       IN shorter \cup {Append(q, x) : q \in shorter, x \in S}

Rays == SeqsUpTo(Meshes, MaxRay)

----------------------------------------------------------------------------
(* Handlers.  A handler is a closure of the application; what it does when *)
(* invoked is its act: nothing, event.stopPropagation(), unregistering or  *)
(* registering another handler through the context, or throwing; the       *)
(* onSelectStart handler of RayGrab (act grab) writes the refs of RayGrab. *)

HandlerDef ==
  [ hHoverL     |-> [object |-> "L", type |-> "onHover",        act |-> "stop",   arg |-> Undefined],
    hBlurL      |-> [object |-> "L", type |-> "onBlur",         act |-> "noop",   arg |-> Undefined],
    hHoverA     |-> [object |-> "A", type |-> "onHover",        act |-> "noop",   arg |-> Undefined],
    hBlurA      |-> [object |-> "A", type |-> "onBlur",         act |-> "noop",   arg |-> Undefined],
    hHoverK     |-> [object |-> "K", type |-> "onHover",        act |-> "noop",   arg |-> Undefined],
    hBlurK      |-> [object |-> "K", type |-> "onBlur",         act |-> "noop",   arg |-> Undefined],
    hSelectL    |-> [object |-> "L", type |-> "onSelect",       act |-> "stop",   arg |-> Undefined],
    hSelectA    |-> [object |-> "A", type |-> "onSelect",       act |-> "noop",   arg |-> Undefined],
    hSelectB    |-> [object |-> "B", type |-> "onSelect",       act |-> "noop",   arg |-> Undefined],
    hMissedA    |-> [object |-> "A", type |-> "onSelectMissed", act |-> "noop",   arg |-> Undefined],
    hMissedK    |-> [object |-> "K", type |-> "onSelectMissed", act |-> "noop",   arg |-> Undefined],
    hSqueezeK   |-> [object |-> "K", type |-> "onSqueeze",      act |-> "noop",   arg |-> Undefined],
    hSelectK    |-> [object |-> "K", type |-> "onSelect",       act |-> "remove", arg |-> "hSelectA"],
    hSelectK2   |-> [object |-> "K", type |-> "onSelect",       act |-> "remove", arg |-> "hSelectK3"],
    hSelectK3   |-> [object |-> "K", type |-> "onSelect",       act |-> "noop",   arg |-> Undefined],
    hGrabA      |-> [object |-> "A", type |-> "onSelectStart",  act |-> "grab",   arg |-> Undefined],
    hStartL     |-> [object |-> "L", type |-> "onSelectStart",  act |-> "stop",   arg |-> Undefined],
    hHoverLThrow  |-> [object |-> "L", type |-> "onHover",  act |-> "throw", arg |-> Undefined],
    hBlurKThrow   |-> [object |-> "K", type |-> "onBlur",   act |-> "throw", arg |-> Undefined],
    hSelectLThrow |-> [object |-> "L", type |-> "onSelect", act |-> "throw", arg |-> Undefined],
    hHoverLRm     |-> [object |-> "L", type |-> "onHover",  act |-> "remove", arg |-> "hHoverA"],
    hSelectKStop  |-> [object |-> "K", type |-> "onSelect", act |-> "stop",   arg |-> Undefined] ]

Handlers == DOMAIN HandlerDef

\* An application: the handlers it mounts, whether XRContext carries a
\* global onSelectMissed, the handedness each device may report, and where
\* its scene puts mesh K: in group A, beside mesh L.
App(handlers, onSelectMissed, hand0, hand1) ==
  [handlers |-> handlers, onSelectMissed |-> onSelectMissed,
   handedness |-> (0 :> hand0 @@ 1 :> hand1), parentOfK |-> "A"]

\* The application a whose scene puts mesh K in group B, beside group A.
Beside(a) == [a EXCEPT !.parentOfK = "B"]

Apps ==
  { \* hover and blur on a mesh and on its group; the mesh stops propagation
    App({"hHoverL", "hBlurL", "hHoverA", "hBlurA"}, FALSE, {"left"}, {}),
    \* select on a child, its parent and its grandparent; the child stops
    App({"hSelectL", "hSelectA", "hSelectB", "hHoverA"}, FALSE, {"right"}, {}),
    \* select-miss handlers and the global miss callback
    App({"hMissedA", "hMissedK", "hSelectA", "hSqueezeK"}, TRUE, {"left"}, {}),
    \* handlers that unregister other handlers while being dispatched
    App({"hSelectK", "hSelectA", "hSelectK2", "hSelectK3"}, FALSE, {"left"}, {}),
    \* one node, two devices of any handedness
    App({"hHoverK", "hBlurK"}, FALSE, {"left", "right", "none"}, {"none"}),
    \* a hover handler that unregisters the hover handler of the parent
    App({"hHoverLRm", "hHoverA"}, FALSE, {"left"}, {}),
    \* a mesh whose hover handler stops, in a group that listens to select
    App({"hHoverL", "hSelectA"}, FALSE, {"left"}, {}),
    \* a group that listens to select and to select-miss, and a mesh beside
    \* it whose select handler stops
    Beside(App({"hSelectA", "hMissedA", "hSelectKStop"}, FALSE, {"left"}, {})) }

----------------------------------------------------------------------------
(* A JavaScript Map: entries in insertion order.  Within one call-in a     *)
(* deleted entry leaves a tombstone, so that an iteration in progress      *)
(* keeps its position and sees the entries added behind it, as a Map       *)
(* iterator does; the tombstones are dropped when the call-in returns.     *)

Tomb == [k |-> Undefined, v |-> Undefined]

MapHas(m, k) == \E i \in 1..Len(m) : m[i].k = k

MapIdx(m, k) == CHOOSE i \in 1..Len(m) : m[i].k = k

MapGet(m, k) == m[MapIdx(m, k)].v

MapSet(m, k, v) ==
  IF MapHas(m, k) THEN [m EXCEPT ![MapIdx(m, k)] = [k |-> k, v |-> v]]
  ELSE Append(m, [k |-> k, v |-> v])

MapDelete(m, k) ==
  IF MapHas(m, k) THEN [m EXCEPT ![MapIdx(m, k)] = Tomb] ELSE m

MapKeys(m) == {m[i].k : i \in 1..Len(m)} \ {Undefined}

MapSize(m) == Cardinality(MapKeys(m))

MapCompact(m) == SelectSeq(m, LAMBDA e : e.k # Undefined)

----------------------------------------------------------------------------
(* ObjectsState: the registry's operations.                                *)

EmptyEntry == [t \in XRInteractionType |-> <<>>]

ObjectsStateAdd(state, object, key, value) ==
  LET entry == IF MapHas(state, object) THEN MapGet(state, object) ELSE EmptyEntry
  IN MapSet(state, object, [entry EXCEPT ![key] = Append(@, value)])

ObjectsStateDelete(state, object, key, value) ==
  IF ~MapHas(state, object) THEN state
  ELSE LET entry == MapGet(state, object)
           left  == [entry EXCEPT ![key] = SelectSeq(@, LAMBDA h : h # value)]
       IN IF \A t \in XRInteractionType : left[t] = <<>>
          THEN MapDelete(state, object)
          ELSE MapSet(state, object, left)

ObjectsStateHas(state, object, key) ==
  MapHas(state, object) /\ MapGet(state, object)[key] # <<>>

\* The handler list of (object, key), or the empty list for undefined.
ObjectsStateGet(state, object, key) ==
  IF MapHas(state, object) THEN MapGet(state, object)[key] ELSE <<>>

----------------------------------------------------------------------------
(* Ray casting and the hit compiler.                                       *)

NoIntersection == [object |-> Undefined, distance |-> 0]

\* Whether node g lies in the subtree rooted at root (g itself included).
RECURSIVE InSubtree(_, _)
InSubtree(g, root) ==
  IF g = Undefined THEN FALSE
  ELSE IF g = root THEN TRUE
  ELSE InSubtree(parent(g), root)

\* Raycaster.intersectObjects(objects, true): every listed object is tested
\* with its descendants, so a mesh below two listed objects is reported once
\* for each; the result is sorted by distance (the sort is stable).
RECURSIVE intersectObjects(_, _, _, _)
intersectObjects(objects, ray, d, i) ==
  IF d > Len(ray) THEN <<>>
  ELSE IF i > Len(objects) THEN intersectObjects(objects, ray, d + 1, 1)
  ELSE (IF InSubtree(ray[d], objects[i])
        THEN <<[object |-> ray[d], distance |-> d]>>
        ELSE <<>>) \o intersectObjects(objects, ray, d, i + 1)

raycast(inter, ray) ==
  LET live    == MapCompact(inter)
      objects == [i \in 1..Len(live) |-> live[i].k]
  IN intersectObjects(objects, ray, 1, 1)

\* (a variant that stops at the nearest registered node)
RECURSIVE eventObjectsOfNearest(_, _)
eventObjectsOfNearest(inter, eventObject) ==
  IF eventObject = Undefined THEN <<>>
  ELSE IF MapHas(inter, eventObject) THEN <<eventObject>>
  ELSE eventObjectsOfNearest(inter, parent(eventObject))

\* The while loop of getIntersections: the registered nodes on the parent
\* chain of the hit object, the object itself first.
RECURSIVE eventObjectsOf(_, _)
eventObjectsOf(inter, eventObject) ==
  IF eventObject = Undefined THEN <<>>
  ELSE (IF MapHas(inter, eventObject) THEN <<eventObject>> ELSE <<>>)
       \o eventObjectsOf(inter, parent(eventObject))

RECURSIVE compileHits(_, _, _)
compileHits(inter, intersects, n) ==
  IF n > Len(intersects) THEN <<>>
  ELSE LET targets == eventObjectsOf(inter, intersects[n].object)
       IN [j \in 1..Len(targets) |->
             [intersection |-> intersects[n], eventObject |-> targets[j]]]
          \o compileHits(inter, intersects, n + 1)

getIntersections(inter, ray) ==
  IF MapSize(inter) = 0
  THEN [intersections |-> <<>>, eventObjects |-> <<>>, hitsSet |-> {}]
  ELSE LET pairs == compileHits(inter, raycast(inter, ray), 1)
       IN [intersections |-> [j \in 1..Len(pairs) |-> pairs[j].intersection],
           eventObjects  |-> [j \in 1..Len(pairs) |-> pairs[j].eventObject],
           hitsSet       |-> {pairs[j].eventObject : j \in 1..Len(pairs)}]

----------------------------------------------------------------------------
(* The record s threaded through a call-in: the registry, the hover maps   *)
(* and the closest hits, the log, the `stopped` variable of the dispatch   *)
(* in progress, and whether an exception is propagating.  The log holds    *)
(* an entry for each evaluation of a ray (eval), each call of the callback *)
(* of a dispatch (callback), each handler invoked (handler), each call of  *)
(* stopPropagation (stop), each hover entry the cancel stage deletes       *)
(* (cancel) and each call of the global miss callback (global).            *)

LogEntry(what, type, c, object, h, i, intersection, intersections) ==
  [what |-> what, type |-> type, c |-> c, object |-> object, h |-> h, i |-> i,
   intersection |-> intersection, intersections |-> intersections]

RECURSIVE forEachHandler(_, _, _, _)
RECURSIVE forEachHandlerCatching(_, _, _, _)
RECURSIVE cancelHoverFrom(_, _, _, _, _, _)
RECURSIVE cancelHoverFromSkipsStopped(_, _, _, _, _, _)

\* (a variant that forgets the hover map of handedness none)
removeInteractionKeepsNone(s, object, eventType, handler) ==
  LET inter == ObjectsStateDelete(s.interactions, object, eventType, handler)
      gone  == ~MapHas(inter, object)
  IN [s EXCEPT
        !.interactions = inter,
        !.hoverState   = [hd \in XRHandedness |->
                            IF gone /\ hd # "none" THEN MapDelete(s.hoverState[hd], object)
                            ELSE s.hoverState[hd]],
        !.hoverClosest = [hd \in XRHandedness |->
                            IF s.hoverClosest[hd].object = object
                            THEN NoIntersection ELSE s.hoverClosest[hd]]]

\* (a variant that leaves the registry as it is)
removeInteractionForgets(s, object, eventType, handler) == s

\* removeInteraction(object, eventType, handler)
removeInteraction(s, object, eventType, handler) ==
  LET inter == ObjectsStateDelete(s.interactions, object, eventType, handler)
      gone  == ~MapHas(inter, object)
  IN [s EXCEPT
        !.interactions = inter,
        !.hoverState   = [hd \in XRHandedness |->
                            IF gone THEN MapDelete(s.hoverState[hd], object)
                            ELSE s.hoverState[hd]],
        !.hoverClosest = [hd \in XRHandedness |->
                            IF s.hoverClosest[hd].object = object
                            THEN NoIntersection ELSE s.hoverClosest[hd]]]

\* addInteraction(object, eventType, handler)
addInteraction(s, object, eventType, handler) ==
  [s EXCEPT !.interactions = ObjectsStateAdd(@, object, eventType, handler)]

\* cancelHover(hits, hovering, handedness, hoverClosest, hitsSet, xrController)
cancelHover(s, hits, handedness, hitsSet, xrController) ==
  cancelHoverFrom(s, 1, hits, handedness, hitsSet, xrController)

\* (a variant whose cancel stage keeps the target of the event only, instead
\* of every node of the hit-set of the ray)
stopPropagationRestricted(s, ev) ==
  LET hovering == s.hoverState[ev.handedness]
      s1 == [s EXCEPT
               !.stopped = TRUE,
               !.log = Append(@, LogEntry("stop", ev.type, ev.controller,
                                          ev.eventObject, Undefined, ev.i,
                                          ev.intersection, ev.intersections)),
               !.hoverState[ev.handedness] =
                  IF ev.stored /\ MapHas(hovering, ev.eventObject)
                  THEN MapSet(hovering, ev.eventObject, [stopped |-> TRUE])
                  ELSE hovering]
  IN IF MapSize(s1.interactions) # 0 /\ MapHas(s1.hoverState[ev.handedness], ev.eventObject)
     THEN cancelHover(s1, SubSeq(ev.intersections, 1, ev.i), ev.handedness,
                      {ev.eventObject}, ev.controller)
     ELSE s1

\* event.stopPropagation() of the event built for pair ev.i
stopPropagation(s, ev) ==
  LET hovering == s.hoverState[ev.handedness]
      s1 == [s EXCEPT
               !.stopped = TRUE,
               !.log = Append(@, LogEntry("stop", ev.type, ev.controller,
                                          ev.eventObject, Undefined, ev.i,
                                          ev.intersection, ev.intersections)),
               \* event.stopped = true, seen through the map when the
               \* event is the hover record of its target
               !.hoverState[ev.handedness] =
                  IF ev.stored /\ MapHas(hovering, ev.eventObject)
                  THEN MapSet(hovering, ev.eventObject, [stopped |-> TRUE])
                  ELSE hovering]
  IN IF MapSize(s1.interactions) # 0 /\ MapHas(s1.hoverState[ev.handedness], ev.eventObject)
     THEN cancelHover(s1, SubSeq(ev.intersections, 1, ev.i), ev.handedness,
                      ev.hitsSet, ev.controller)
     ELSE s1

\* handler(event)
invokeHandler(s, h, ev) ==
  LET def == HandlerDef[h]
      s1  == [s EXCEPT !.log = Append(@, LogEntry("handler", ev.type, ev.controller,
                                                  ev.eventObject, h, ev.i,
                                                  ev.intersection, ev.intersections))]
  IN CASE def.act = "stop"   -> stopPropagation(s1, ev)
       [] def.act = "remove" -> removeInteraction(s1, HandlerDef[def.arg].object,
                                                  HandlerDef[def.arg].type, def.arg)
       [] def.act = "add"    -> addInteraction(s1, HandlerDef[def.arg].object,
                                               HandlerDef[def.arg].type, def.arg)
       [] def.act = "throw"  -> [s1 EXCEPT !.thrown = TRUE]
       [] OTHER              -> s1

\* (a variant that catches what a handler throws and goes on)
forEachHandlerCatching(s, handlers, n, ev) ==
  IF n > Len(handlers) THEN s
  ELSE forEachHandlerCatching(
         [invokeHandler(s, handlers[n], ev) EXCEPT !.thrown = FALSE], handlers, n + 1, ev)

\* handlers.forEach((handler) => handler(event)) from index n on
forEachHandler(s, handlers, n, ev) ==
  IF s.thrown \/ n > Len(handlers) THEN s
  ELSE forEachHandler(invokeHandler(s, handlers[n], ev), handlers, n + 1, ev)

\* The event of a kind without intersection (onBlur, onSelectMissed).
NoIntersectionEvent(type, eventObject, xrController, handedness, hits) ==
  [type |-> type, eventObject |-> eventObject, controller |-> xrController,
   handedness |-> handedness, intersection |-> NoIntersection,
   intersections |-> hits, i |-> 0, hitsSet |-> {}, stored |-> FALSE]

\* (a variant that leaves alone the records that carry a stop)
cancelHoverFromSkipsStopped(s, idx, hits, handedness, hitsSet, xrController) ==
  IF s.thrown \/ idx > Len(s.hoverState[handedness]) THEN s
  ELSE
    LET eventObject == s.hoverState[handedness][idx].k
    IN IF \/ eventObject = Undefined
          \/ eventObject \in hitsSet
          \/ s.hoverState[handedness][idx].v.stopped
       THEN cancelHoverFromSkipsStopped(s, idx + 1, hits, handedness, hitsSet,
                                        xrController)
       ELSE
         LET s1 == forEachHandler(
                     s, ObjectsStateGet(s.interactions, eventObject, "onBlur"), 1,
                     NoIntersectionEvent("onBlur", eventObject, xrController,
                                         handedness, hits))
             s2 == IF s1.thrown THEN s1
                   ELSE [s1 EXCEPT
                           !.log = Append(@, LogEntry("cancel", "onBlur", xrController,
                                                      eventObject, Undefined, 0,
                                                      NoIntersection, hits)),
                           !.hoverState[handedness] = MapDelete(@, eventObject),
                           !.hoverClosest[handedness] =
                              IF @.object = eventObject THEN NoIntersection ELSE @]
         IN cancelHoverFromSkipsStopped(s2, idx + 1, hits, handedness, hitsSet,
                                        xrController)

\* for (const eventObject of hovering.keys()), from entry idx on
cancelHoverFrom(s, idx, hits, handedness, hitsSet, xrController) ==
  IF s.thrown \/ idx > Len(s.hoverState[handedness]) THEN s
  ELSE
    LET eventObject == s.hoverState[handedness][idx].k
    IN IF eventObject = Undefined \/ eventObject \in hitsSet
       THEN cancelHoverFrom(s, idx + 1, hits, handedness, hitsSet, xrController)
       ELSE
         LET s1 == forEachHandler(
                     s, ObjectsStateGet(s.interactions, eventObject, "onBlur"), 1,
                     NoIntersectionEvent("onBlur", eventObject, xrController,
                                         handedness, hits))
             s2 == IF s1.thrown THEN s1
                   ELSE [s1 EXCEPT
                           !.log = Append(@, LogEntry("cancel", "onBlur", xrController,
                                                      eventObject, Undefined, 0,
                                                      NoIntersection, hits)),
                           !.hoverState[handedness] = MapDelete(@, eventObject),
                           !.hoverClosest[handedness] =
                              IF @.object = eventObject THEN NoIntersection ELSE @]
         IN cancelHoverFrom(s2, idx + 1, hits, handedness, hitsSet, xrController)

----------------------------------------------------------------------------
(* The event dispatcher and the two call-ins that use it.                  *)

\* (a variant that invokes the handlers without keeping a hover record)
hoverCallbackNoRecord(s, ev) ==
  LET eventObject == ev.eventObject
      hovering    == s.hoverState[ev.handedness]
  IN IF ~MapHas(hovering, eventObject)
     THEN IF ObjectsStateHas(s.interactions, eventObject, "onHover")
          THEN forEachHandler(
                 s, ObjectsStateGet(s.interactions, eventObject, "onHover"), 1, ev)
          ELSE s
     ELSE IF MapGet(hovering, eventObject).stopped
          THEN stopPropagation(s, ev)
          ELSE s

\* (a variant that keeps a hover record only for targets listening for
\* onHover)
hoverCallbackOnlyListeners(s, ev) ==
  LET eventObject == ev.eventObject
      hovering    == s.hoverState[ev.handedness]
  IN IF ~MapHas(hovering, eventObject)
     THEN IF ObjectsStateHas(s.interactions, eventObject, "onHover")
          THEN forEachHandler(
                 [s EXCEPT !.hoverState[ev.handedness] =
                             MapSet(@, eventObject, [stopped |-> FALSE])],
                 ObjectsStateGet(s.interactions, eventObject, "onHover"), 1,
                 [ev EXCEPT !.stored = TRUE])
          ELSE s
     ELSE IF MapGet(hovering, eventObject).stopped
          THEN stopPropagation(s, ev)
          ELSE s

\* (a variant that does not look at the stop recorded on a hover record)
hoverCallbackForgetsStop(s, ev) ==
  LET eventObject == ev.eventObject
      hovering    == s.hoverState[ev.handedness]
  IN IF ~MapHas(hovering, eventObject)
     THEN LET s1 == [s EXCEPT !.hoverState[ev.handedness] =
                                 MapSet(@, eventObject, [stopped |-> FALSE])]
          IN IF ObjectsStateHas(s1.interactions, eventObject, "onHover")
             THEN forEachHandler(
                    s1, ObjectsStateGet(s1.interactions, eventObject, "onHover"), 1,
                    [ev EXCEPT !.stored = TRUE])
             ELSE s1
     ELSE s

\* The callback the frame tick passes to handleIntersects.
hoverCallback(s, ev) ==
  LET eventObject == ev.eventObject
      hovering    == s.hoverState[ev.handedness]
  IN IF ~MapHas(hovering, eventObject)
     THEN LET s1 == [s EXCEPT !.hoverState[ev.handedness] =
                                 MapSet(@, eventObject, [stopped |-> FALSE])]
          IN IF ObjectsStateHas(s1.interactions, eventObject, "onHover")
             THEN forEachHandler(
                    s1, ObjectsStateGet(s1.interactions, eventObject, "onHover"), 1,
                    [ev EXCEPT !.stored = TRUE])
             ELSE s1
     ELSE IF MapGet(hovering, eventObject).stopped
          THEN stopPropagation(s, ev)
          ELSE s

\* (a variant that honours the stop recorded on the hover record of the
\* target, as the hover callback does)
triggerCallbackHonoursHoverStop(s, ev) ==
  LET hovering == s.hoverState[ev.handedness]
  IN IF MapHas(hovering, ev.eventObject) /\ MapGet(hovering, ev.eventObject).stopped
     THEN stopPropagation(s, ev)
     ELSE forEachHandler(s, ObjectsStateGet(s.interactions, ev.eventObject, ev.type), 1, ev)

\* The callback triggerEvent passes to handleIntersects.
triggerCallback(s, ev) ==
  forEachHandler(s, ObjectsStateGet(s.interactions, ev.eventObject, ev.type), 1, ev)

\* if (stopped) { break }
loopNeverBreaks(s) == FALSE

loopBreaks(s) == s.stopped

\* (a variant that dispatches to each target once, at its first pair)
RECURSIVE handleIntersectsFromOncePerTarget(_, _, _, _, _, _)
handleIntersectsFromOncePerTarget(s, i, hits, xrController, handedness, interaction) ==
  IF s.thrown \/ i > Len(hits.intersections) THEN s
  ELSE IF \E k \in 1..(i - 1) : hits.eventObjects[k] = hits.eventObjects[i]
  THEN handleIntersectsFromOncePerTarget(s, i + 1, hits, xrController, handedness,
                                         interaction)
  ELSE
    LET ev == [type |-> interaction, eventObject |-> hits.eventObjects[i],
               controller |-> xrController, handedness |-> handedness,
               intersection |-> hits.intersections[i],
               intersections |-> hits.intersections, i |-> i,
               hitsSet |-> hits.hitsSet, stored |-> FALSE]
        s0 == [s EXCEPT !.log = Append(@, LogEntry("callback", interaction, xrController,
                                                   ev.eventObject, Undefined, i,
                                                   ev.intersection, ev.intersections))]
        s1 == IF interaction = "onHover" THEN hoverCallback(s0, ev)
              ELSE triggerCallback(s0, ev)
    IN IF loopBreaks(s1) THEN s1
       ELSE handleIntersectsFromOncePerTarget(s1, i + 1, hits, xrController, handedness,
                                              interaction)

\* for (let i = 0; i < intersections.length; i++) { ... }, from pair i on
\* (pairs are numbered from 1 here)
RECURSIVE handleIntersectsFrom(_, _, _, _, _, _)
handleIntersectsFrom(s, i, hits, xrController, handedness, interaction) ==
  IF s.thrown \/ i > Len(hits.intersections) THEN s
  ELSE
    LET ev == [type |-> interaction, eventObject |-> hits.eventObjects[i],
               controller |-> xrController, handedness |-> handedness,
               intersection |-> hits.intersections[i],
               intersections |-> hits.intersections, i |-> i,
               hitsSet |-> hits.hitsSet, stored |-> FALSE]
        s0 == [s EXCEPT !.log = Append(@, LogEntry("callback", interaction, xrController,
                                                   ev.eventObject, Undefined, i,
                                                   ev.intersection, ev.intersections))]
        s1 == IF interaction = "onHover" THEN hoverCallback(s0, ev)
              ELSE triggerCallback(s0, ev)
    IN IF loopBreaks(s1) THEN s1
       ELSE handleIntersectsFrom(s1, i + 1, hits, xrController, handedness, interaction)

handleIntersects(s, hits, xrController, handedness, interaction) ==
  handleIntersectsFrom([s EXCEPT !.stopped = FALSE], 1, hits, xrController,
                       handedness, interaction)

EvalEntry(interaction, xrController, hits) ==
  [what |-> "eval", type |-> interaction, c |-> xrController.id,
   handedness |-> xrController.handedness,
   intersections |-> hits.intersections, eventObjects |-> hits.eventObjects,
   hitsSet |-> hits.hitsSet]

\* controllers.forEach((xrController) => { ... }) of the frame tick
RECURSIVE forEachController(_, _, _, _)
forEachController(s, n, ctrls, rays) ==
  IF s.thrown \/ n > Len(ctrls) THEN s
  ELSE
    LET xrController == ctrls[n]
        hits         == getIntersections(s.interactions, rays[xrController.id])
        handedness   == xrController.handedness
        s1 == [s EXCEPT
                 !.log = Append(@, EvalEntry("onHover", xrController, hits)),
                 !.hoverClosest[handedness] =
                    IF Len(hits.intersections) > 0 THEN hits.intersections[1]
                    ELSE NoIntersection]
        s2 == cancelHover(s1, hits.intersections, handedness, hits.hitsSet,
                          xrController.id)
        s3 == handleIntersects(s2, hits, xrController.id, handedness, "onHover")
    IN forEachController(s3, n + 1, ctrls, rays)

\* useFrame(() => { ... }): trigger hover and blur events
useFrame(s, ctrls, rays) ==
  IF MapSize(s.interactions) = 0 THEN s
  ELSE forEachController(s, 1, ctrls, rays)

\* (a variant that notifies every node, hit or not)
RECURSIVE selectMissedFromEvery(_, _, _, _)
selectMissedFromEvery(s, idx, hits, xrController) ==
  IF s.thrown \/ idx > Len(s.interactions) THEN s
  ELSE
    LET eventObject == s.interactions[idx].k
    IN IF eventObject = Undefined
       THEN selectMissedFromEvery(s, idx + 1, hits, xrController)
       ELSE selectMissedFromEvery(
              forEachHandler(s, s.interactions[idx].v["onSelectMissed"], 1,
                             NoIntersectionEvent("onSelectMissed", eventObject,
                                                 xrController.id,
                                                 xrController.handedness,
                                                 hits.intersections)),
              idx + 1, hits, xrController)

\* for (const [eventObject, entry] of interactions.entries()), from idx on
RECURSIVE selectMissedFrom(_, _, _, _)
selectMissedFrom(s, idx, hits, xrController) ==
  IF s.thrown \/ idx > Len(s.interactions) THEN s
  ELSE
    LET eventObject == s.interactions[idx].k
    IN IF eventObject = Undefined \/ eventObject \in hits.hitsSet
       THEN selectMissedFrom(s, idx + 1, hits, xrController)
       ELSE selectMissedFrom(
              forEachHandler(s, s.interactions[idx].v["onSelectMissed"], 1,
                             NoIntersectionEvent("onSelectMissed", eventObject,
                                                 xrController.id,
                                                 xrController.handedness,
                                                 hits.intersections)),
              idx + 1, hits, xrController)

\* (a variant that does not look at the hit-set)
selectMissedGlobalAlways(s, global, hits, xrController, interaction) ==
  IF ~s.thrown /\ global
  THEN [s EXCEPT !.log = Append(@, LogEntry("global", interaction, xrController.id,
                                            Undefined, Undefined, 0,
                                            NoIntersection, hits.intersections))]
  ELSE s

\* if (onSelectMissedGlobal && hitsSet.size === 0) onSelectMissedGlobal(...)
selectMissedGlobal(s, global, hits, xrController, interaction) ==
  IF ~s.thrown /\ global /\ Cardinality(hits.hitsSet) = 0
  THEN [s EXCEPT !.log = Append(@, LogEntry("global", interaction, xrController.id,
                                            Undefined, Undefined, 0,
                                            NoIntersection, hits.intersections))]
  ELSE s

\* (a variant that notifies misses on every kind of event)
triggerEventAnyKind(s, global, interaction, xrController, ray) ==
  LET hits == getIntersections(s.interactions, ray)
      s0   == [s EXCEPT !.log = Append(@, EvalEntry(interaction, xrController, hits))]
      s1   == selectMissedGlobal(selectMissedFrom(s0, 1, hits, xrController),
                                 global, hits, xrController, interaction)
  IN handleIntersects(s1, hits, xrController.id, xrController.handedness, interaction)

\* (a variant that reconciles the hover map with the hits of the event, as
\* the frame tick does)
triggerEventReconciles(s, global, interaction, xrController, ray) ==
  LET hits == getIntersections(s.interactions, ray)
      s0   == [s EXCEPT !.log = Append(@, EvalEntry(interaction, xrController, hits))]
      s1   == IF interaction = "onSelect"
              THEN selectMissedGlobal(selectMissedFrom(s0, 1, hits, xrController),
                                      global, hits, xrController, interaction)
              ELSE s0
      s2   == cancelHover(s1, hits.intersections, xrController.handedness, hits.hitsSet,
                          xrController.id)
  IN handleIntersects(s2, hits, xrController.id, xrController.handedness, interaction)

\* triggerEvent(interaction)(e)
triggerEvent(s, global, interaction, xrController, ray) ==
  LET hits == getIntersections(s.interactions, ray)
      s0   == [s EXCEPT !.log = Append(@, EvalEntry(interaction, xrController, hits))]
      s1   == IF interaction = "onSelect"
              THEN selectMissedGlobal(selectMissedFrom(s0, 1, hits, xrController),
                                      global, hits, xrController, interaction)
              ELSE s0
  IN handleIntersects(s1, hits, xrController.id, xrController.handedness, interaction)

----------------------------------------------------------------------------
(* RayGrab.  A pose (Matrix4) is a permutation matrix of three axes,       *)
(* written as the tuple of the images of the axes: the six of them are the *)
(* smallest group that is not commutative, with exact products and         *)
(* inverses.                                                               *)

Axes == {1, 2, 3}

Poses == {p \in [Axes -> Axes] : \A i, j \in Axes : p[i] = p[j] => i = j}

\* new Matrix4()
Identity == [i \in Axes |-> i]

\* a.multiply(b)
Multiply(a, b) == [i \in Axes |-> a[b[i]]]

\* m.clone().invert()
Invert(m) == [i \in Axes |-> CHOOSE j \in Axes : m[j] = i]

\* (a variant that multiplies m on the right of the matrix of the group)
applyMatrix4OnTheRight(matrix, m) == Multiply(matrix, m)

\* group.applyMatrix4(m): the matrix of the group is premultiplied by m
applyMatrix4(matrix, m) == Multiply(m, matrix)

\* useRef<Object3D>() and useRef<Matrix4 | undefined>(undefined) hold
\* undefined: no controller, no matrix.
NoController == -1

NoMatrix == <<>>

\* The refs of RayGrab as one value.
Grab(controller, previous) ==
  [grabbingController |-> controller, previousTransform |-> previous]

\* (a variant that releases on the select-end of any controller)
RayGrabSelectEndAny(grab, xrController) == Grab(NoController, NoMatrix)

\* useXREvent('selectend', (e) => { ... }) of RayGrab
RayGrabSelectEnd(grab, xrController) ==
  IF xrController.id = grab.grabbingController
  THEN Grab(NoController, NoMatrix)
  ELSE grab

\* (a variant that stores the pose itself)
RayGrabOnSelectStartNoInvert(grab, xrController, matrixWorld) ==
  Grab(xrController.id, matrixWorld)

\* (a variant that keeps the grab it holds)
RayGrabOnSelectStartIfIdle(grab, xrController, matrixWorld) ==
  IF grab.grabbingController = NoController
  THEN Grab(xrController.id, Invert(matrixWorld))
  ELSE grab

\* onSelectStart={(e) => { ... }} of RayGrab
RayGrabOnSelectStart(grab, xrController, matrixWorld) ==
  Grab(xrController.id, Invert(matrixWorld))

\* group.applyMatrix4(previousTransform.current)
\* group.applyMatrix4(controller.matrixWorld)
RayGrabApply(matrix, previous, matrixWorld) ==
  applyMatrix4(applyMatrix4(matrix, previous), matrixWorld)

\* (a variant that keeps the inverse pose of the grab start)
RayGrabUseFrameStale(grab, matrix, matrixWorld) ==
  IF grab.grabbingController = NoController \/ grab.previousTransform = NoMatrix
  THEN [grab |-> grab, matrix |-> matrix]
  ELSE [grab   |-> grab,
        matrix |-> RayGrabApply(matrix, grab.previousTransform, matrixWorld)]

\* useFrame(() => { ... }) of RayGrab: the refs and the group matrix after
\* the frame, the grabbing controller being at pose matrixWorld.
RayGrabUseFrame(grab, matrix, matrixWorld) ==
  IF grab.grabbingController = NoController \/ grab.previousTransform = NoMatrix
  THEN [grab |-> grab, matrix |-> matrix]
  ELSE [grab   |-> Grab(grab.grabbingController, Invert(matrixWorld)),
        matrix |-> RayGrabApply(matrix, grab.previousTransform, matrixWorld)]

\* The same frame callback, matrixWorldOf giving the pose of each controller:
\* the callback reads the pose of the controller held in grabbingController.
RayGrabUseFrameOf(grab, matrix, matrixWorldOf) ==
  IF grab.grabbingController = NoController THEN [grab |-> grab, matrix |-> matrix]
  ELSE RayGrabUseFrame(grab, matrix, matrixWorldOf[grab.grabbingController])

----------------------------------------------------------------------------
(* The state machine.                                                      *)

\* The objects that outlive a call-in, as one value.
Now ==
  [interactions |-> interactions, hoverState |-> hoverState,
   hoverClosest |-> hoverClosest]

\* A call-in starts on state st: nothing logged, nothing thrown.
Enter(st) ==
  [interactions |-> st.interactions, hoverState |-> st.hoverState,
   hoverClosest |-> st.hoverClosest, stopped |-> FALSE, thrown |-> FALSE,
   log |-> <<>>]

\* The call-in returns (or its exception leaves): what it did to the objects.
Leave(s) ==
  [interactions |-> MapCompact(s.interactions),
   hoverState   |-> [hd \in XRHandedness |-> MapCompact(s.hoverState[hd])],
   hoverClosest |-> s.hoverClosest]

Commit(s) ==
  /\ interactions' = Leave(s).interactions
  /\ hoverState'   = Leave(s).hoverState
  /\ hoverClosest' = Leave(s).hoverClosest

Present == {controllers[n].id : n \in 1..Len(controllers)}

IsRegistered(inter, h) ==
  LET handlers == ObjectsStateGet(inter, HandlerDef[h].object, HandlerDef[h].type)
  IN \E n \in 1..Len(handlers) : handlers[n] = h

\* gl.xr.getSession() returns null, useRef<XRHitTestSource | undefined>()
\* holds undefined: no session, no source.
NoSession == 0

NoSource == 0

\* useHitTest as it mounts, no session having run.
HitIdle ==
  /\ session = NoSession
  /\ sessionsStarted = 0
  /\ hitTestSource = NoSource
  /\ hitTestSourceRequested = FALSE
  /\ hitMatrix = Identity
  /\ reported = NoSource
  /\ pending = {}
  /\ endListeners = {}

\* RayGrab holds nothing; its group sits where the scene put it.
GrabIdle ==
  /\ grabbingController = NoController
  /\ previousTransform = NoMatrix
  /\ groupMatrix = Identity

Init ==
  /\ interactions = <<>>
  /\ hoverState = [hd \in XRHandedness |-> <<>>]
  /\ hoverClosest = [hd \in XRHandedness |-> NoIntersection]
  /\ controllers = <<>>
  /\ app \in Apps
  /\ GrabIdle
  /\ HitIdle

FrameTick ==
  \E rays \in [Present -> Rays] :
    /\ Commit(useFrame(Enter(Now), controllers, rays))
    /\ UNCHANGED <<controllers, app, grabVars, hitVars>>

DeviceEvent ==
  \E n \in 1..Len(controllers), interaction \in DeviceEvents, ray \in Rays :
    /\ Commit(triggerEvent(Enter(Now), app.onSelectMissed, interaction,
                           controllers[n], ray))
    /\ UNCHANGED <<controllers, app, grabVars, hitVars>>

AddInteraction ==
  \E h \in app.handlers :
    /\ ~IsRegistered(interactions, h)
    /\ Commit(addInteraction(Enter(Now), HandlerDef[h].object, HandlerDef[h].type, h))
    /\ UNCHANGED <<controllers, app, grabVars, hitVars>>

RemoveInteraction ==
  \E h \in app.handlers :
    /\ Commit(removeInteraction(Enter(Now), HandlerDef[h].object,
                                HandlerDef[h].type, h))
    /\ UNCHANGED <<controllers, app, grabVars, hitVars>>

\* XRController.make's onConnected / onDisconnected callbacks
Connect ==
  \E id \in ControllerIds \ Present :
    \E hd \in app.handedness[id] :
      /\ controllers' = Append(controllers, [id |-> id, handedness |-> hd])
      /\ UNCHANGED <<interactions, hoverState, hoverClosest, app, grabVars, hitVars>>

Disconnect ==
  \E id \in Present :
    /\ controllers' = SelectSeq(controllers, LAMBDA it : it.id # id)
    /\ UNCHANGED <<interactions, hoverState, hoverClosest, app, grabVars, hitVars>>

Next ==
  \/ FrameTick
  \/ DeviceEvent
  \/ AddInteraction
  \/ RemoveInteraction
  \/ Connect
  \/ Disconnect

Spec == Init /\ [][Next]_vars

----------------------------------------------------------------------------
(* The same machine with applications whose handlers throw.  Nothing in    *)
(* the call-ins catches: the exception leaves the call-in, and what the    *)
(* call-in wrote before it stays written.                                  *)

ThrowApps ==
  { \* a hover handler that throws, a handler on the parent, a second device
    App({"hHoverLThrow", "hHoverA"}, FALSE, {"left"}, {"right"}),
    \* a select handler that throws, with another handler on the same node
    \* and one on the parent, and a blur handler that throws
    App({"hSelectLThrow", "hSelectL", "hSelectA", "hBlurKThrow"}, FALSE, {"left"}, {}) }

ThrowInit ==
  /\ interactions = <<>>
  /\ hoverState = [hd \in XRHandedness |-> <<>>]
  /\ hoverClosest = [hd \in XRHandedness |-> NoIntersection]
  /\ controllers = <<>>
  /\ app \in ThrowApps
  /\ GrabIdle
  /\ HitIdle

ThrowSpec == ThrowInit /\ [][Next]_vars

----------------------------------------------------------------------------
(* RayGrab mounted on group A, and the discrete events that drive it.      *)
(* RayGrab registers its onSelectStart handler through Interactive when    *)
(* it mounts, listens to selectend and steps the group in its own frame    *)
(* callback.  The pose of a controller (matrixWorld) is written by the     *)
(* renderer: a call-in reads whatever value it finds.  The frame callback  *)
(* of InteractionManager is left to Spec: it writes the hover maps only,   *)
(* which a discrete dispatch reads to invoke onBlur handlers, and none is  *)
(* mounted here.                                                           *)

\* An Interactive inside the grabbed group whose onSelectStart stops.
GrabApp == App({"hStartL"}, FALSE, {"left"}, {"right"})

GrabNow == Grab(grabbingController, previousTransform)

\* Whether the onSelectStart handler of RayGrab is invoked in log l.
GrabHandlerCalled(l) == \E p \in 1..Len(l) : l[p].what = "handler" /\ l[p].h = "hGrabA"

\* What a discrete event of controller xrController at pose matrixWorld,
\* whose dispatch left log l, does to the refs of RayGrab.
GrabAfterEvent(grab, interaction, xrController, matrixWorld, l) ==
  LET g1 == IF interaction = "onSelectEnd" THEN RayGrabSelectEnd(grab, xrController)
            ELSE grab
  IN IF GrabHandlerCalled(l) THEN RayGrabOnSelectStart(g1, xrController, matrixWorld)
     ELSE g1

\* The poses a listener of the event can read: only the onSelectStart
\* handler of RayGrab reads matrixWorld.
PosesRead(interaction) == IF interaction = "onSelectStart" THEN Poses ELSE {Identity}

GrabInit ==
  /\ interactions = ObjectsStateAdd(<<>>, "A", "onSelectStart", "hGrabA")
  /\ hoverState = [hd \in XRHandedness |-> <<>>]
  /\ hoverClosest = [hd \in XRHandedness |-> NoIntersection]
  /\ controllers = <<>>
  /\ app = GrabApp
  /\ GrabIdle
  /\ HitIdle

\* The frame callback of RayGrab, the controllers being at the poses
\* matrixWorldOf.
RayGrabFrame ==
  \E matrixWorldOf \in [ControllerIds -> Poses] :
    LET step == RayGrabUseFrameOf(GrabNow, groupMatrix, matrixWorldOf)
    IN /\ grabbingController' = step.grab.grabbingController
       /\ previousTransform' = step.grab.previousTransform
       /\ groupMatrix' = step.matrix
       /\ UNCHANGED <<interactions, hoverState, hoverClosest, controllers, app, hitVars>>

\* One discrete event: the listener of InteractionManager and, on
\* selectend, the one of RayGrab.
GrabDeviceEvent ==
  \E n \in 1..Len(controllers), interaction \in DeviceEvents, ray \in Rays :
    \E matrixWorld \in PosesRead(interaction) :
      LET run  == triggerEvent(Enter(Now), app.onSelectMissed, interaction,
                               controllers[n], ray)
          grab == GrabAfterEvent(GrabNow, interaction, controllers[n], matrixWorld,
                                 run.log)
      IN /\ Commit(run)
         /\ grabbingController' = grab.grabbingController
         /\ previousTransform' = grab.previousTransform
         /\ UNCHANGED <<controllers, app, groupMatrix, hitVars>>

GrabNext ==
  \/ RayGrabFrame
  \/ GrabDeviceEvent
  \/ AddInteraction
  \/ RemoveInteraction
  \/ Connect
  \/ Disconnect

GrabSpec == GrabInit /\ [][GrabNext]_vars

----------------------------------------------------------------------------
(* useHitTest.  Sessions are numbered in the order the host starts them;   *)
(* an XRHitTestSource is written as the number of the session it was       *)
(* obtained from.  The two requests of useHitTest are promises of the      *)
(* host: each one in flight is resolved or rejected by the host at a time  *)
(* of its choosing, the end of the session it was made on not cancelling   *)
(* it.  The 'end' event of a session runs the listeners of the renderer    *)
(* (isPresenting becomes false, getSession() null) and those of useHitTest *)
(* in one dispatch.                                                        *)

Request(stage, of) == [stage |-> stage, session |-> of]

\* What frame.getHitTestResults and hit.getPose can give: a pose, or
\* nothing (no result, no reference space, no pose).
HitTestResults == Poses \cup {NoMatrix}

\* if (!hitTestSourceRequested.current) { ... }: the request for the
\* reference space, the 'end' listener, the flag.
RequestHitTestSource ==
  IF ~hitTestSourceRequested
  THEN /\ pending' = pending \cup {Request("referenceSpace", session)}
       /\ endListeners' = endListeners \cup {session}
       /\ hitTestSourceRequested' = TRUE
  ELSE UNCHANGED <<pending, endListeners, hitTestSourceRequested>>

\* if (hitTestSource.current && gl.xr.isPresenting && frame) { ... }
ReportHit ==
  IF hitTestSource # NoSource
  THEN \E result \in HitTestResults :
         IF result = NoMatrix THEN UNCHANGED <<hitMatrix, reported>>
         ELSE /\ hitMatrix' = result
              /\ reported' = hitTestSource
  ELSE UNCHANGED <<hitMatrix, reported>>

\* useFrame((_, __, frame) => { ... }) of useHitTest
HitTestFrame ==
  /\ IF session = NoSession
     THEN UNCHANGED <<pending, endListeners, hitTestSourceRequested, hitMatrix, reported>>
     ELSE RequestHitTestSource /\ ReportHit
  /\ UNCHANGED <<session, sessionsStarted, hitTestSource>>
  /\ UNCHANGED <<interactions, hoverState, hoverClosest, controllers, app, grabVars>>

\* requestReferenceSpace('viewer') resolves: its callback requests the hit
\* test source on the session the request was made on; on an ended session
\* requestHitTestSource fails at once.
ResolveReferenceSpace ==
  \E r \in pending :
    /\ r.stage = "referenceSpace"
    /\ pending' = (pending \ {r}) \cup
                    (IF r.session = session
                     THEN {Request("hitTestSource", r.session)} ELSE {})
    /\ UNCHANGED <<session, sessionsStarted, hitTestSource, hitTestSourceRequested,
                   hitMatrix, reported, endListeners>>
    /\ UNCHANGED <<interactions, hoverState, hoverClosest, controllers, app, grabVars>>

\* requestHitTestSource resolves: hitTestSource.current = source
ResolveHitTestSource ==
  \E r \in pending :
    /\ r.stage = "hitTestSource"
    /\ hitTestSource' = r.session
    /\ pending' = pending \ {r}
    /\ UNCHANGED <<session, sessionsStarted, hitTestSourceRequested, hitMatrix,
                   reported, endListeners>>
    /\ UNCHANGED <<interactions, hoverState, hoverClosest, controllers, app, grabVars>>

\* The host rejects a request in flight: no callback of useHitTest runs.
RejectRequest ==
  \E r \in pending :
    /\ pending' = pending \ {r}
    /\ UNCHANGED <<session, sessionsStarted, hitTestSource, hitTestSourceRequested,
                   hitMatrix, reported, endListeners>>
    /\ UNCHANGED <<interactions, hoverState, hoverClosest, controllers, app, grabVars>>

\* The host starts a session.
SessionStart ==
  /\ session = NoSession
  /\ sessionsStarted < MaxSessions
  /\ sessionsStarted' = sessionsStarted + 1
  /\ session' = sessionsStarted + 1
  /\ UNCHANGED <<hitTestSource, hitTestSourceRequested, hitMatrix, reported, pending,
                 endListeners>>
  /\ UNCHANGED <<interactions, hoverState, hoverClosest, controllers, app, grabVars>>

\* The 'end' event of the running session; the listener of useHitTest, if
\* the session carries it, runs once.
SessionEnd ==
  /\ session # NoSession
  /\ session' = NoSession
  /\ IF session \in endListeners
     THEN /\ hitTestSourceRequested' = FALSE
          /\ hitTestSource' = NoSource
          /\ endListeners' = endListeners \ {session}
     ELSE UNCHANGED <<hitTestSourceRequested, hitTestSource, endListeners>>
  /\ UNCHANGED <<sessionsStarted, hitMatrix, reported, pending>>
  /\ UNCHANGED <<interactions, hoverState, hoverClosest, controllers, app, grabVars>>

HitInit ==
  /\ interactions = <<>>
  /\ hoverState = [hd \in XRHandedness |-> <<>>]
  /\ hoverClosest = [hd \in XRHandedness |-> NoIntersection]
  /\ controllers = <<>>
  /\ app = App({}, FALSE, {}, {})
  /\ GrabIdle
  /\ HitIdle

HitNext ==
  \/ HitTestFrame
  \/ ResolveReferenceSpace
  \/ ResolveHitTestSource
  \/ RejectRequest
  \/ SessionStart
  \/ SessionEnd

HitSpec == HitInit /\ [][HitNext]_vars

----------------------------------------------------------------------------
(* Properties.  A call-in leaves no trace in the state but its effects, so *)
(* a property of what a call-in does (which handlers it invokes, in which  *)
(* order, with which event) is stated on the log of the run, for every     *)
(* call-in the host can make in the state at hand.                         *)

\* The frame ticks the host can make now, and what each one does.
TickInputs == [Present -> Rays]

TickRun(st, ctrls, rays) == useFrame(Enter(st), ctrls, rays)

\* The discrete events the devices can fire now, and what each one does.
EventInputs ==
  {[n |-> n, interaction |-> interaction, ray |-> ray] :
     n \in 1..Len(controllers), interaction \in DeviceEvents, ray \in Rays}

EventRun(st, in) ==
  triggerEvent(Enter(st), app.onSelectMissed, in.interaction, controllers[in.n], in.ray)

\* Whether handler h is invoked at position p of log l.
IsCall(l, p) == l[p].what = "handler"

\* How often handler h is invoked in log l.
Calls(l, h) == Cardinality({p \in 1..Len(l) : IsCall(l, p) /\ l[p].h = h})

\* The handlers registered for (object, type), as a set.
HandlersOf(inter, object, type) ==
  {ObjectsStateGet(inter, object, type)[n] :
     n \in 1..Len(ObjectsStateGet(inter, object, type))}

\* The proper ancestors of node n.
RECURSIVE Ancestors(_)
Ancestors(n) ==
  IF parent(n) = Undefined THEN {} ELSE {parent(n)} \cup Ancestors(parent(n))

\* The keys of a hover map.
Hovered(st, hd) == MapKeys(st.hoverState[hd])

----------------------------------------------------------------------------
\* In log l, once stopPropagation is called on the event of pair i of a
\* dispatch, that dispatch invokes its callback and handlers for no pair
\* behind i.
StopEndsDispatch(l) ==
  \A p, q \in 1..Len(l) :
    (/\ l[p].what = "stop"
     /\ l[q].what \in {"callback", "handler"}
     /\ l[q].c = l[p].c) => l[q].i <= l[p].i

\* C1: in one call of handleIntersects, once a handler called for pair i calls
\* stopPropagation, neither the callback nor a handler is invoked for any
\* later pair; in particular, when the ray first hits the geometry of a
\* registered child whose onSelect handler stops propagation, no onSelect
\* handler of an ancestor of the child is invoked for that select event.
C1_StopPropagationEndsDispatch ==
  /\ \A in \in EventInputs :
       LET l == EventRun(Now, in).log
       IN /\ StopEndsDispatch(l)
          /\ \A h \in Handlers :
               (/\ in.interaction = "onSelect"
                /\ in.ray # <<>>
                /\ HandlerDef[h].object = in.ray[1]
                /\ HandlerDef[h].type = "onSelect"
                /\ HandlerDef[h].act = "stop"
                /\ IsRegistered(interactions, h))
               => \A q \in 1..Len(l) :
                    IsCall(l, q) => l[q].object \notin Ancestors(in.ray[1])
  /\ \A rays \in TickInputs :
       StopEndsDispatch(TickRun(Now, controllers, rays).log)

\* A select event hits a child whose onSelect handler stops propagation while
\* a registered ancestor with an onSelect handler is behind it in the hit list.
C1_Witness ==
  \E in \in EventInputs :
    LET l == EventRun(Now, in).log
    IN /\ in.interaction = "onSelect"
       /\ \E p \in 1..Len(l) :
            /\ l[p].what = "stop"
            /\ l[p].i < Len(l[p].intersections)
            /\ \E a \in Ancestors(l[p].object) :
                 HandlersOf(interactions, a, "onSelect") # {}

----------------------------------------------------------------------------
\* The reference hit list: every geometric intersection in order of distance,
\* and for each the registered nodes among the hit object and its ancestors,
\* the nearest first.
RECURSIVE ChainOf(_)
ChainOf(n) == IF n = Undefined THEN <<>> ELSE <<n>> \o ChainOf(parent(n))

RECURSIVE Flatten(_)
Flatten(ss) == IF ss = <<>> THEN <<>> ELSE Head(ss) \o Flatten(Tail(ss))

ReferenceHits(inter, ray) ==
  LET intersects == raycast(inter, ray)
      targets(x) == SelectSeq(ChainOf(x.object), LAMBDA n : n \in MapKeys(inter))
  IN Flatten([n \in 1..Len(intersects) |->
                [j \in 1..Len(targets(intersects[n])) |->
                   [intersection |-> intersects[n],
                    eventObject |-> targets(intersects[n])[j]]]])

\* C8: the flat hit list is the reference list: intersections by increasing
\* distance, for each the registered nodes of the parent chain nearest
\* first, none skipped, none unregistered; a registered parent precedes a
\* registered grandparent of the same intersection.
C8_HitListIsReference ==
  \A ray \in Rays :
    LET hits == getIntersections(interactions, ray)
        ref  == ReferenceHits(interactions, ray)
        n    == Len(hits.intersections)
    IN /\ Len(hits.eventObjects) = n
       /\ Len(ref) = n
       /\ \A j \in 1..n :
            /\ hits.intersections[j] = ref[j].intersection
            /\ hits.eventObjects[j] = ref[j].eventObject
       /\ hits.hitsSet = {ref[j].eventObject : j \in 1..n}
       /\ \A j, k \in 1..n :
            j < k => hits.intersections[j].distance <= hits.intersections[k].distance
       /\ \A j \in 1..n :
            \A a \in Ancestors(hits.eventObjects[j]) \cap MapKeys(interactions) :
              \E k \in (j + 1)..n :
                /\ hits.eventObjects[k] = a
                /\ hits.intersections[k] = hits.intersections[j]
                /\ \A m \in j..k : hits.eventObjects[m] \in {hits.eventObjects[j]} \cup Ancestors(hits.eventObjects[j])

\* A ray crosses two meshes while a mesh, its parent and its grandparent are
\* all registered.
C8_Witness ==
  /\ {"L", "A", "B"} \subseteq MapKeys(interactions)
  /\ \E ray \in Rays :
       /\ Len(ray) = 2
       /\ Len(getIntersections(interactions, ray).eventObjects) > 3

----------------------------------------------------------------------------
\* The positions of log l at which the global miss callback is invoked.
GlobalCalls(l) == {p \in 1..Len(l) : l[p].what = "global"}

\* C6: a select event whose hit-set is empty (an empty registry included)
\* invokes a registered global miss callback exactly once, with an empty
\* intersection list; the callback is not invoked when the hit-set is not
\* empty, and not on any other kind of event.
C6_GlobalMissOncePerEmptySelect ==
  \A in \in EventInputs :
    LET l    == EventRun(Now, in).log
        hits == getIntersections(interactions, in.ray)
    IN IF app.onSelectMissed /\ in.interaction = "onSelect" /\ hits.hitsSet = {}
       THEN /\ Cardinality(GlobalCalls(l)) = 1
            /\ \A p \in GlobalCalls(l) : l[p].intersections = <<>>
       ELSE GlobalCalls(l) = {}

\* A select event whose ray crosses geometry outside every registered
\* subtree, with a global miss callback and a non-empty registry.
C6_Witness ==
  /\ app.onSelectMissed
  /\ MapSize(interactions) > 0
  /\ \E in \in EventInputs :
       /\ in.interaction = "onSelect"
       /\ in.ray # <<>>
       /\ Cardinality(GlobalCalls(EventRun(Now, in).log)) = 1

----------------------------------------------------------------------------
\* The positions of log l at which an onSelectMissed handler is invoked.
MissedCalls(l) == {p \in 1..Len(l) : IsCall(l, p) /\ l[p].type = "onSelectMissed"}

\* The registered nodes with onSelectMissed handlers outside hit-set hs.
MissedNodes(inter, hs) ==
  {n \in MapKeys(inter) : HandlersOf(inter, n, "onSelectMissed") # {} /\ n \notin hs}

\* C7: on a select event the nodes whose onSelectMissed handlers are invoked
\* are exactly the registered nodes that have such handlers and are not in
\* the hit-set (a registered ancestor of hit geometry is in the hit-set);
\* each handler is invoked once, with no specific intersection and the
\* current intersection list; no other kind of event invokes one.
C7_SelectMissedExactlyTheMissed ==
  \A in \in EventInputs :
    LET l    == EventRun(Now, in).log
        hits == getIntersections(interactions, in.ray)
    IN IF in.interaction = "onSelect"
       THEN /\ {l[p].object : p \in MissedCalls(l)} = MissedNodes(interactions, hits.hitsSet)
            /\ \A n \in MissedNodes(interactions, hits.hitsSet) :
                 \A h \in HandlersOf(interactions, n, "onSelectMissed") : Calls(l, h) = 1
            /\ \A p \in MissedCalls(l) :
                 /\ l[p].h \in HandlersOf(interactions, l[p].object, "onSelectMissed")
                 /\ l[p].intersection = NoIntersection
                 /\ l[p].intersections = hits.intersections
       ELSE MissedCalls(l) = {}

\* A select event hits a mesh below a registered group with onSelectMissed
\* handlers (the group is hit, no miss) while a registered sibling mesh with
\* onSelectMissed handlers is missed.
C7_Witness ==
  /\ HandlersOf(interactions, "A", "onSelectMissed") # {}
  /\ HandlersOf(interactions, "K", "onSelectMissed") # {}
  /\ \E in \in EventInputs :
       LET l == EventRun(Now, in).log
       IN /\ in.interaction = "onSelect"
          /\ in.ray = <<"L">>
          /\ {l[p].object : p \in MissedCalls(l)} = {"K"}

----------------------------------------------------------------------------
\* Every handler registered for node n, whatever its type.
AllHandlersOf(inter, n) ==
  UNION {HandlersOf(inter, n, type) : type \in XRInteractionType}

\* The state after removeInteraction(object, type, h) called from outside.
AfterRemove(h) ==
  Leave(removeInteraction(Enter(Now), HandlerDef[h].object, HandlerDef[h].type, h))

\* C10: unregistering the last handler of a node removes the node from the
\* registry, so that no ray hits it any more, and from the hover map of each
\* of left, right and none; an unregister call that leaves the node a
\* handler leaves the node registered and every hover map as it was.
C10_LastUnregisterPurgesNode ==
  \A h \in app.handlers :
    LET n    == HandlerDef[h].object
        left == AllHandlersOf(interactions, n) \ {h}
        st   == AfterRemove(h)
    IN /\ (IsRegistered(interactions, h) /\ left = {}) =>
            /\ n \notin MapKeys(st.interactions)
            /\ \A ray \in Rays : n \notin getIntersections(st.interactions, ray).hitsSet
            /\ \A hd \in XRHandedness : n \notin Hovered(st, hd)
       /\ left # {} =>
            /\ n \in MapKeys(st.interactions)
            /\ st.hoverState = hoverState

\* The last handler of a node is about to go while the node is hovered in
\* the maps of all three handedness values.
C10_Witness ==
  \E h \in app.handlers :
    /\ AllHandlersOf(interactions, HandlerDef[h].object) = {h}
    /\ \A hd \in XRHandedness : HandlerDef[h].object \in Hovered(Now, hd)

\* A handler goes while its node keeps another one and is hovered.
C10_WitnessKept ==
  \E h \in app.handlers :
    /\ IsRegistered(interactions, h)
    /\ AllHandlersOf(interactions, HandlerDef[h].object) \ {h} # {}
    /\ \E hd \in XRHandedness : HandlerDef[h].object \in Hovered(Now, hd)

----------------------------------------------------------------------------
\* The rays that hit, and that miss, registered node n.
RaysHitting(inter, n) == {ray \in Rays : n \in getIntersections(inter, ray).hitsSet}

RaysMissing(inter, n) == Rays \ RaysHitting(inter, n)

\* The frame tick of the only controller, pointing along ray.
OneTick(st, ray) ==
  TickRun(st, controllers, [id \in Present |-> ray])

\* How often the handlers of (n, type) are invoked in log l: the same count
\* for each of them, or -1.
CallsOfEach(l, inter, n, type) ==
  IF \E k \in 0..Len(l) : \A h \in HandlersOf(inter, n, type) : Calls(l, h) = k
  THEN CHOOSE k \in 0..Len(l) : \A h \in HandlersOf(inter, n, type) : Calls(l, h) = k
  ELSE 0 - 1

\* Nothing stops the hover dispatch before it reaches node n: no onHover
\* handler of another node calls stopPropagation and no hover record of
\* another node carries a stop.
NothingStopsBefore(st, hd, n) ==
  /\ \A h \in Handlers :
       (IsRegistered(st.interactions, h) /\ HandlerDef[h].type = "onHover"
        /\ HandlerDef[h].act = "stop") => HandlerDef[h].object = n
  /\ \A m \in Hovered(st, hd) \ {n} : ~MapGet(st.hoverState[hd], m).stopped

\* The hover scenario can start on node n: one controller, n registered for
\* onHover and onBlur, n not hovered.
HoverScenario(n) ==
  /\ Len(controllers) = 1
  /\ HandlersOf(interactions, n, "onHover") # {}
  /\ HandlersOf(interactions, n, "onBlur") # {}
  /\ n \notin Hovered(Now, controllers[1].handedness)
  /\ NothingStopsBefore(Now, controllers[1].handedness, n)

\* C3: with node N registered for onHover and onBlur and one controller, a
\* frame tick whose ray hits N invokes N's onHover handlers once and puts N
\* in the hover map of the controller's handedness; a following tick whose
\* ray misses N invokes N's onBlur handlers once and removes N from the map;
\* a following tick whose ray hits N again invokes the onHover handlers
\* again and puts N back in the map.
C3_HoverBlurHoverScenario ==
  \A n \in Nodes :
    HoverScenario(n) =>
      LET hd == controllers[1].handedness
      IN \A r1 \in RaysHitting(interactions, n) :
           LET s1 == OneTick(Now, r1)
           IN /\ CallsOfEach(s1.log, interactions, n, "onHover") = 1
              /\ CallsOfEach(s1.log, interactions, n, "onBlur") = 0
              /\ n \in Hovered(Leave(s1), hd)
              /\ \A r2 \in RaysMissing(interactions, n) :
                   LET s2 == OneTick(Leave(s1), r2)
                   IN /\ CallsOfEach(s2.log, interactions, n, "onBlur") = 1
                      /\ CallsOfEach(s2.log, interactions, n, "onHover") = 0
                      /\ n \notin Hovered(Leave(s2), hd)
                      /\ \A r3 \in RaysHitting(interactions, n) :
                           LET s3 == OneTick(Leave(s2), r3)
                           IN /\ CallsOfEach(s3.log, interactions, n, "onHover") = 1
                              /\ CallsOfEach(s3.log, interactions, n, "onBlur") = 0
                              /\ n \in Hovered(Leave(s3), hd)

\* The scenario starts on a node that rays can hit and miss, and its three
\* ticks invoke onHover, onBlur and onHover.
C3_Witness ==
  \E n \in Nodes :
    /\ HoverScenario(n)
    /\ \E r1, r3 \in RaysHitting(interactions, n), r2 \in RaysMissing(interactions, n) :
         LET s1 == OneTick(Now, r1)
             s2 == OneTick(Leave(s1), r2)
             s3 == OneTick(Leave(s2), r3)
         IN /\ CallsOfEach(s1.log, interactions, n, "onHover") = 1
            /\ CallsOfEach(s2.log, interactions, n, "onBlur") = 1
            /\ CallsOfEach(s3.log, interactions, n, "onHover") = 1

----------------------------------------------------------------------------
\* The first position of node n in flat hit list eventObjects (n is in it).
FirstIndex(eventObjects, n) ==
  CHOOSE j \in 1..Len(eventObjects) :
    /\ eventObjects[j] = n
    /\ \A k \in 1..(j - 1) : eventObjects[k] # n

\* The targets that follow node n in flat hit list eventObjects.
Following(eventObjects, n) ==
  {eventObjects[k] : k \in (FirstIndex(eventObjects, n) + 1)..Len(eventObjects)}
    \ {eventObjects[k] : k \in 1..FirstIndex(eventObjects, n)}

\* The hover record of node n for handedness hd carries a stop.
StopRecorded(st, hd, n) ==
  n \in Hovered(st, hd) /\ MapGet(st.hoverState[hd], n).stopped

\* Controller number n is the only connected one of its handedness.
OnlyOfItsHandedness(n) ==
  \A m \in 1..Len(controllers) :
    controllers[m].handedness = controllers[n].handedness => m = n

\* C5: a stop made by an onHover handler of node S in the frame tick in which
\* S enters the hover map is recorded on the hover record of S, and while the
\* record carries it, in every frame tick of that handedness whose hit-set
\* still holds S, no target behind S in the flat hit list has its onHover
\* handlers invoked or is added to the hover map, and the record stays.
C5_RecordedStopKeepsSuppressing ==
  \A rays \in TickInputs :
    LET run == TickRun(Now, controllers, rays)
        l   == run.log
    IN \A n \in 1..Len(controllers) :
         OnlyOfItsHandedness(n) =>
           LET hd   == controllers[n].handedness
               hits == getIntersections(interactions, rays[controllers[n].id])
           IN \A S \in hits.hitsSet :
                /\ (/\ S \notin Hovered(Now, hd)
                    /\ \E p \in 1..Len(l) :
                         /\ IsCall(l, p) /\ l[p].type = "onHover" /\ l[p].object = S
                         /\ HandlerDef[l[p].h].act = "stop")
                   => StopRecorded(Leave(run), hd, S)
                /\ StopRecorded(Now, hd, S) =>
                     /\ \A p \in 1..Len(l) :
                          (l[p].what \in {"callback", "handler"} /\ l[p].c = controllers[n].id)
                            => l[p].i <= FirstIndex(hits.eventObjects, S)
                     /\ \A m \in Following(hits.eventObjects, S) :
                          /\ \A h \in HandlersOf(interactions, m, "onHover") : Calls(l, h) = 0
                          /\ m \notin Hovered(Now, hd) => m \notin Hovered(Leave(run), hd)
                     /\ StopRecorded(Leave(run), hd, S)

\* The hover record of a mesh carries a stop, the hit-set of a tick still
\* holds the mesh, and a registered ancestor with onHover handlers that is
\* not hovered follows it in the hit list.
C5_Witness ==
  \E rays \in TickInputs, n \in 1..Len(controllers) :
    LET hd   == controllers[n].handedness
        hits == getIntersections(interactions, rays[controllers[n].id])
    IN \E S \in hits.hitsSet :
         /\ StopRecorded(Now, hd, S)
         /\ \E m \in Following(hits.eventObjects, S) :
              /\ HandlersOf(interactions, m, "onHover") # {}
              /\ m \notin Hovered(Now, hd)

----------------------------------------------------------------------------
\* What controller c's ray hit in the tick of log l.
HitStateOf(l, c) ==
  {[intersections |-> l[p].intersections, eventObjects |-> l[p].eventObjects] :
     p \in {q \in 1..Len(l) : l[q].what = "eval" /\ l[q].c = c}}

\* The positions of log l at which an onHover or onBlur handler is invoked
\* for controller c.
HoverBlurCalls(l, c) ==
  {p \in 1..Len(l) : IsCall(l, p) /\ l[p].c = c /\ l[p].type \in {"onHover", "onBlur"}}

\* C2: hover fires once per enter and blur once per leave; in particular, in
\* a frame tick in which a controller's hit state is the same as in the
\* previous frame tick, no onHover and no onBlur handler is invoked for that
\* controller.
C2_NoHoverBlurWhileHitStateUnchanged ==
  \A rays \in TickInputs :
    LET s1 == TickRun(Now, controllers, rays)
        s2 == TickRun(Leave(s1), controllers, rays)
    IN \A c \in Present :
         HitStateOf(s2.log, c) = HitStateOf(s1.log, c) => HoverBlurCalls(s2.log, c) = {}

----------------------------------------------------------------------------
\* The hit-sets the tick of log l computed for handedness hd.
HitSetsOf(l, hd) ==
  {l[p].hitsSet : p \in {q \in 1..Len(l) : l[q].what = "eval" /\ l[q].handedness = hd}}

\* C4: a node in the hover map of a handedness has been in the hit-set of
\* every frame tick since the one that added it: after any frame tick, each
\* node of the map is in a hit-set that tick computed for the handedness.
C4_HoveredNodesAreHitEveryTick ==
  \A rays \in TickInputs :
    LET run == TickRun(Now, controllers, rays)
    IN \A hd \in XRHandedness :
         \A n \in Hovered(Leave(run), hd) :
           \E hs \in HitSetsOf(run.log, hd) : n \in hs

----------------------------------------------------------------------------
\* In log l no handler is invoked after a handler that unregistered it.
NoCallAfterRemove(l) ==
  \A p, q \in 1..Len(l) :
    (/\ p < q
     /\ IsCall(l, p)
     /\ IsCall(l, q)
     /\ HandlerDef[l[p].h].act = "remove")
    => l[q].h # HandlerDef[l[p].h].arg

\* C9: a handler is never invoked after removeInteraction has returned for
\* it, an unregister performed by another handler of the dispatch in flight
\* included.
C9_NoCallAfterUnregister ==
  /\ \A in \in EventInputs : NoCallAfterRemove(EventRun(Now, in).log)
  /\ \A rays \in TickInputs : NoCallAfterRemove(TickRun(Now, controllers, rays).log)

----------------------------------------------------------------------------
(* RayGrab.                                                                *)

\* The discrete events the devices can fire now, with the pose of the
\* device, and what each one does to the dispatcher and to RayGrab.
GrabEventInputs ==
  {[n |-> n, interaction |-> interaction, ray |-> ray, matrixWorld |-> matrixWorld] :
     n \in 1..Len(controllers), interaction \in DeviceEvents, ray \in Rays,
     matrixWorld \in Poses}

GrabEventRun(in) ==
  triggerEvent(Enter(Now), app.onSelectMissed, in.interaction, controllers[in.n], in.ray)

GrabAfter(in) ==
  GrabAfterEvent(GrabNow, in.interaction, controllers[in.n], in.matrixWorld,
                 GrabEventRun(in).log)

\* The refs and the group matrix after one frame of RayGrab for each pose
\* of path, in order.
RECURSIVE FramesAlong(_, _, _)
FramesAlong(grab, matrix, path) ==
  IF path = <<>> THEN [grab |-> grab, matrix |-> matrix]
  ELSE LET step == RayGrabUseFrame(grab, matrix, Head(path))
       IN FramesAlong(step.grab, step.matrix, Tail(path))

\* The ways a controller goes from pose c0 to pose c1 and back while frames
\* come: a frame at each pose, with or without a frame before it leaves c0
\* and a second frame at c1.
LoopsOver(c0, c1) ==
  {<<c1, c0>>, <<c0, c1, c0>>, <<c1, c1, c0>>, <<c0, c1, c1, c0, c0>>}

\* C11: grab round trip: when a grab starts with group transform G0 and the
\* controller at pose C0, and frames come while the controller moves to C1
\* and back to C0, the transform of the group after the last frame is G0,
\* for all G0, C0 and C1.
C11_GrabRoundTrip ==
  \A in \in GrabEventInputs :
    (in.interaction = "onSelectStart" /\ GrabHandlerCalled(GrabEventRun(in).log)) =>
      \A c1 \in Poses :
        \A path \in LoopsOver(in.matrixWorld, c1) :
          FramesAlong(GrabAfter(in), groupMatrix, path).matrix = groupMatrix

\* A grab can start on a group that has been moved before, and there are
\* poses C0 and C1 that do not commute with which the frame at C1 moves
\* the group.
C11_Witness ==
  /\ groupMatrix # Identity
  /\ \E in \in GrabEventInputs, c1 \in Poses :
       /\ in.interaction = "onSelectStart"
       /\ GrabHandlerCalled(GrabEventRun(in).log)
       /\ Multiply(in.matrixWorld, c1) # Multiply(c1, in.matrixWorld)
       /\ FramesAlong(GrabAfter(in), groupMatrix, <<c1>>).matrix # groupMatrix

----------------------------------------------------------------------------
\* RayGrab is in state grabbing.
Grabbing == grabbingController # NoController

\* C12: while RayGrab is grabbing with controller c, a select-end event of c
\* returns it to idle and clears the captured controller and the stored
\* inverse pose, whether or not the ray of c hits the group; a select-end
\* event of another controller leaves both as they are.
C12_SelectEndReleasesOwnGrab ==
  Grabbing =>
    \A in \in GrabEventInputs :
      in.interaction = "onSelectEnd" =>
        IF controllers[in.n].id = grabbingController
        THEN /\ GrabAfter(in).grabbingController = NoController
             /\ GrabAfter(in).previousTransform = NoMatrix
        ELSE GrabAfter(in) = GrabNow

\* RayGrab is grabbing, the grabbing controller can fire select-end with a
\* ray that misses the group and with one that hits it, and another
\* controller is connected.
C12_Witness ==
  /\ Grabbing
  /\ previousTransform # NoMatrix
  /\ \E in, out \in GrabEventInputs :
       /\ in.interaction = "onSelectEnd"
       /\ out.interaction = "onSelectEnd"
       /\ controllers[in.n].id = grabbingController
       /\ controllers[out.n].id = grabbingController
       /\ "A" \in getIntersections(interactions, in.ray).hitsSet
       /\ "A" \notin getIntersections(interactions, out.ray).hitsSet
  /\ \E n \in 1..Len(controllers) : controllers[n].id # grabbingController

----------------------------------------------------------------------------
\* The grabbed group is an event target of the flat hit list of event in.
HitsGrabNode(in) == "A" \in getIntersections(interactions, in.ray).hitsSet

\* In log l, propagation is stopped at a pair in front of the first pair of
\* node n of flat hit list eventObjects.
StoppedBefore(l, eventObjects, n) ==
  \E p \in 1..Len(l) : l[p].what = "stop" /\ l[p].i < FirstIndex(eventObjects, n)

\* RayGrab has captured the controller of event in and the inverse of its
\* pose.
Captured(in) ==
  /\ GrabAfter(in).grabbingController = controllers[in.n].id
  /\ GrabAfter(in).previousTransform = Invert(in.matrixWorld)

\* C13 as stated: from idle, whenever a controller issues select-start while
\* the grabbed group is an event target of its flat hit list, RayGrab enters
\* grabbing with that controller and the inverse of its pose.
C13_SelectStartOnHitGrabs ==
  ~Grabbing =>
    \A in \in GrabEventInputs :
      (in.interaction = "onSelectStart" /\ HitsGrabNode(in)) => Captured(in)

\* C13 amended: the same, provided the dispatch reaches the pair of the
\* group: no handler invoked for an earlier pair of the hit list stops
\* propagation.
C13_SelectStartReachingGroupGrabs ==
  ~Grabbing =>
    \A in \in GrabEventInputs :
      (/\ in.interaction = "onSelectStart"
       /\ HitsGrabNode(in)
       /\ ~StoppedBefore(GrabEventRun(in).log,
                         getIntersections(interactions, in.ray).eventObjects, "A"))
      => Captured(in)

\* RayGrab is idle and a select-start reaches the group although a child in
\* front of it in another intersection stops propagation, at a pose that is
\* not its own inverse.
C13_Witness ==
  /\ ~Grabbing
  /\ \E in \in GrabEventInputs :
       /\ in.interaction = "onSelectStart"
       /\ IsRegistered(interactions, "hStartL")
       /\ \E p \in 1..Len(GrabEventRun(in).log) : GrabEventRun(in).log[p].what = "stop"
       /\ GrabHandlerCalled(GrabEventRun(in).log)
       /\ Invert(in.matrixWorld) # in.matrixWorld

----------------------------------------------------------------------------
\* The onHover and onBlur handlers log l invokes for controller c, in order.
HoverBlurSeq(l, c) ==
  LET calls == SelectSeq(l, LAMBDA e : /\ e.what = "handler"
                                       /\ e.c = c
                                       /\ e.type \in {"onHover", "onBlur"})
  IN [p \in 1..Len(calls) |-> <<calls[p].h, calls[p].object>>]

\* C14: hover state is independent per device: over two frame ticks that
\* start with nothing hovered, the onHover and onBlur handlers invoked for a
\* controller are those invoked when it is the only controller, whatever
\* the other controllers and their handedness.
C14_HoverIndependentPerDevice ==
  (\A hd \in XRHandedness : Hovered(Now, hd) = {}) =>
    \A rays1, rays2 \in TickInputs :
      \A n \in 1..Len(controllers) :
        LET c      == controllers[n].id
            alone  == <<controllers[n]>>
            all1   == TickRun(Now, controllers, rays1)
            all2   == TickRun(Leave(all1), controllers, rays2)
            alone1 == TickRun(Now, alone, rays1)
            alone2 == TickRun(Leave(alone1), alone, rays2)
        IN /\ HoverBlurSeq(all1.log, c) = HoverBlurSeq(alone1.log, c)
           /\ HoverBlurSeq(all2.log, c) = HoverBlurSeq(alone2.log, c)

----------------------------------------------------------------------------
\* In log l a handler that throws is the last thing the call-in does.
ThrowEndsPass(l) ==
  \A p \in 1..Len(l) :
    (IsCall(l, p) /\ HandlerDef[l[p].h].act = "throw") => p = Len(l)

\* Whether a handler that throws is invoked in log l.
ThrowCalled(l) ==
  \E p \in 1..Len(l) : IsCall(l, p) /\ HandlerDef[l[p].h].act = "throw"

\* C15: when a handler throws during a frame tick or a discrete event, the
\* error is not caught and the rest of the pass is abandoned: no later
\* handler of the same pair, no later pair of the hit list and, in a frame
\* tick, no later controller is processed.
C15_ThrowAbortsPass ==
  /\ \A rays \in TickInputs :
       LET run == TickRun(Now, controllers, rays)
       IN /\ ThrowEndsPass(run.log)
          /\ run.thrown <=> ThrowCalled(run.log)
  /\ \A in \in EventInputs :
       LET run == EventRun(Now, in)
       IN /\ ThrowEndsPass(run.log)
          /\ run.thrown <=> ThrowCalled(run.log)

\* The first of two controllers enters a mesh whose onHover handler throws,
\* with a handler on its parent.
C15_Witness ==
  /\ Len(controllers) = 2
  /\ IsRegistered(interactions, "hHoverA")
  /\ \E rays \in TickInputs :
       /\ rays[controllers[1].id] = <<"L">>
       /\ rays[controllers[2].id] = <<"L">>
       /\ ThrowCalled(TickRun(Now, controllers, rays).log)

\* A select event hits a mesh whose first onSelect handler throws, with a
\* second handler on the mesh and a handler on its parent.
C15_WitnessEvent ==
  /\ IsRegistered(interactions, "hSelectA")
  /\ ObjectsStateGet(interactions, "L", "onSelect") = <<"hSelectLThrow", "hSelectL">>
  /\ \E in \in EventInputs :
       /\ in.interaction = "onSelect"
       /\ ThrowCalled(EventRun(Now, in).log)

----------------------------------------------------------------------------
\* The targets of pairs 1..i of flat hit list eventObjects.
TargetsUpTo(eventObjects, i) == {eventObjects[k] : k \in 1..i}

\* The positions of log l at which stopPropagation is called.
Stops(l) == {p \in 1..Len(l) : l[p].what = "stop"}

\* C16: when stopPropagation is called on the event of pair i while the
\* registry is not empty and the target of the pair has a hover record,
\* every hovered node among the targets of the pairs processed so far has
\* its onBlur handlers invoked and is removed from the hover map: when the
\* call-in returns, none of these targets is in the hover map.
C16_StopBlursProcessedTargets ==
  /\ \A rays \in TickInputs :
       LET run == TickRun(Now, controllers, rays)
       IN \A n \in 1..Len(controllers) :
            OnlyOfItsHandedness(n) =>
              \A p \in Stops(run.log) :
                run.log[p].c = controllers[n].id =>
                  TargetsUpTo(getIntersections(interactions,
                                               rays[controllers[n].id]).eventObjects,
                              run.log[p].i)
                    \cap Hovered(Leave(run), controllers[n].handedness) = {}
  /\ \A in \in EventInputs :
       LET run == EventRun(Now, in)
           hd  == controllers[in.n].handedness
       IN \A p \in Stops(run.log) :
            run.log[p].object \in Hovered(Now, hd) =>
              \A m \in TargetsUpTo(getIntersections(interactions, in.ray).eventObjects,
                                   run.log[p].i) \cap Hovered(Now, hd) :
                /\ m \notin Hovered(Leave(run), hd)
                /\ \A h \in HandlersOf(interactions, m, "onBlur") : Calls(run.log, h) = 1

----------------------------------------------------------------------------
\* The pairs behind pair i of flat hit list eventObjects whose target is n.
LaterPairsOf(eventObjects, i, n) ==
  {j \in (i + 1)..Len(eventObjects) : eventObjects[j] = n}

\* The positions of log l at which a handler is invoked that unregisters a
\* handler which was registered when the call-in began, for a target of a
\* later pair of flat hit list eventObjects.
RemovalsAhead(l, eventObjects) ==
  {p \in 1..Len(l) :
     /\ IsCall(l, p)
     /\ HandlerDef[l[p].h].act = "remove"
     /\ IsRegistered(interactions, HandlerDef[l[p].h].arg)
     /\ LaterPairsOf(eventObjects, l[p].i, HandlerDef[HandlerDef[l[p].h].arg].object) # {}}

\* Whether log l has an entry of kind what for pair j, for handler h if it
\* is a handler entry.
PairEntry(l, what, j, h) ==
  \E q \in 1..Len(l) : l[q].what = what /\ l[q].i = j /\ l[q].h = h

\* C17 as stated: when a handler invoked for pair i unregisters handler h of
\* the target of a later pair j and propagation is not stopped, pair j is
\* still dispatched and h is still invoked for it in the current dispatch.
C17_RemovedHandlerStillInvoked ==
  \A in \in EventInputs :
    LET run  == EventRun(Now, in)
        objs == getIntersections(interactions, in.ray).eventObjects
    IN (Stops(run.log) = {} /\ ~run.thrown) =>
         \A p \in RemovalsAhead(run.log, objs) :
           LET h == HandlerDef[run.log[p].h].arg
           IN \A j \in LaterPairsOf(objs, run.log[p].i, HandlerDef[h].object) :
                /\ PairEntry(run.log, "callback", j, Undefined)
                /\ PairEntry(run.log, "handler", j, h)

\* C17 amended: in that case the callback still runs for pair j, which comes
\* from the hit list computed before the dispatch, but h is not invoked for
\* pair j, and h is not invoked in any later evaluation.
C17_RemovedHandlerSkippedAtLaterPair ==
  \A in \in EventInputs :
    LET run  == EventRun(Now, in)
        objs == getIntersections(interactions, in.ray).eventObjects
    IN (Stops(run.log) = {} /\ ~run.thrown) =>
         \A p \in RemovalsAhead(run.log, objs) :
           LET h == HandlerDef[run.log[p].h].arg
           IN /\ \A j \in LaterPairsOf(objs, run.log[p].i, HandlerDef[h].object) :
                   /\ PairEntry(run.log, "callback", j, Undefined)
                   /\ ~PairEntry(run.log, "handler", j, h)
              /\ \A next \in EventInputs :
                   Calls(EventRun(Leave(run), next).log, h) = 0
              /\ \A rays \in TickInputs :
                   Calls(TickRun(Leave(run), controllers, rays).log, h) = 0

\* A select event hits a mesh whose handler unregisters the onSelect handler
\* of its parent, the target of the next pair.
C17_Witness ==
  \E in \in EventInputs :
    LET run  == EventRun(Now, in)
        objs == getIntersections(interactions, in.ray).eventObjects
    IN /\ Stops(run.log) = {}
       /\ \E p \in RemovalsAhead(run.log, objs) :
            /\ run.log[p].h = "hSelectK"
            /\ PairEntry(run.log, "callback", run.log[p].i + 1, Undefined)

----------------------------------------------------------------------------
\* C18: between call-ins every node in the hover map of any handedness is a
\* key of the registry; in particular the three hover maps are empty
\* whenever the registry is empty.
C18_HoveredNodesAreRegistered ==
  \A hd \in XRHandedness : Hovered(Now, hd) \subseteq MapKeys(interactions)

----------------------------------------------------------------------------
\* The targets for which log l invokes the hover callback for controller c.
Dispatched(l, c) ==
  {l[p].object : p \in {q \in 1..Len(l) : l[q].what = "callback" /\ l[q].c = c}}

\* The handlers of kind type that log l invokes for controller c.
CalledOfType(l, c, type) ==
  {l[p].h : p \in {q \in 1..Len(l) : IsCall(l, q) /\ l[q].c = c /\ l[q].type = type}}

\* C19: in a frame tick every dispatched target without a hover record gets
\* one, whether or not it has onHover handlers, and the onHover handlers
\* invoked are handlers of dispatched targets without a record that listen
\* for onHover (all of them when no handler changes the registry during the
\* tick); hence a node registered for onBlur only enters the hover map
\* when hit and has its onBlur handlers invoked once when it leaves the
\* hit-set in a later tick.
C19_EveryDispatchedTargetIsRecorded ==
  \A n \in 1..Len(controllers) :
    OnlyOfItsHandedness(n) =>
      LET c  == controllers[n].id
          hd == controllers[n].handedness
      IN \A rays \in TickInputs :
           LET run == TickRun(Now, controllers, rays)
           IN /\ Dispatched(run.log, c) \subseteq Hovered(Leave(run), hd)
              /\ CalledOfType(run.log, c, "onHover") \subseteq
                   UNION {HandlersOf(interactions, m, "onHover") :
                            m \in Dispatched(run.log, c) \ Hovered(Now, hd)}
              /\ Leave(run).interactions = interactions =>
                   UNION {HandlersOf(interactions, m, "onHover") :
                            m \in Dispatched(run.log, c) \ Hovered(Now, hd)}
                     \subseteq CalledOfType(run.log, c, "onHover")
              /\ \A m \in Dispatched(run.log, c) \ Hovered(Now, hd) :
                   (/\ HandlersOf(interactions, m, "onHover") = {}
                    /\ HandlersOf(interactions, m, "onBlur") # {}
                    /\ Len(controllers) = 1)
                   => \A out \in RaysMissing(interactions, m) :
                        LET next == OneTick(Leave(run), out)
                        IN /\ CallsOfEach(next.log, interactions, m, "onBlur") = 1
                           /\ m \notin Hovered(Leave(next), hd)

\* A tick dispatches to a node that has an onBlur handler and no onHover
\* handler and is not hovered, and a ray can miss the node afterwards.
C19_Witness ==
  /\ Len(controllers) = 1
  /\ \E rays \in TickInputs, m \in Nodes :
       /\ m \in Dispatched(TickRun(Now, controllers, rays).log, controllers[1].id)
       /\ m \notin Hovered(Now, controllers[1].handedness)
       /\ HandlersOf(interactions, m, "onHover") = {}
       /\ HandlersOf(interactions, m, "onBlur") # {}
       /\ RaysMissing(interactions, m) # {}

----------------------------------------------------------------------------
\* How often handler h is invoked for controller c in log l.
CallsFor(l, c, h) ==
  Cardinality({p \in 1..Len(l) : IsCall(l, p) /\ l[p].c = c /\ l[p].h = h})

\* The last pair the dispatch of controller c reaches in log l of a tick
\* over flat hit list eventObjects: the first pair at which propagation is
\* stopped, or the last pair of the list.
LastPairReached(l, c, eventObjects) ==
  IF \E p \in Stops(l) : l[p].c = c
  THEN (CHOOSE p \in Stops(l) : l[p].c = c).i
  ELSE Len(eventObjects)

\* C20: in the first frame tick in which node S, whose hover record carries
\* a stop, is not in the hit-set of the controller any more, the onBlur
\* handlers of S are invoked and S leaves the hover map, and the targets of
\* the hit list are dispatched again in that tick: up to the next stop,
\* each one without a hover record gets a record and has its onHover
\* handlers invoked.
C20_LeavingStopperFreesTargets ==
  \A n \in 1..Len(controllers) :
    OnlyOfItsHandedness(n) =>
      LET c  == controllers[n].id
          hd == controllers[n].handedness
      IN \A rays \in TickInputs :
           LET hits == getIntersections(interactions, rays[c])
               run  == TickRun(Now, controllers, rays)
           IN \A S \in Hovered(Now, hd) \ hits.hitsSet :
                StopRecorded(Now, hd, S) =>
                  /\ \A h \in HandlersOf(interactions, S, "onBlur") :
                       CallsFor(run.log, c, h) = 1
                  /\ S \notin Hovered(Leave(run), hd)
                  /\ \A k \in 1..LastPairReached(run.log, c, hits.eventObjects) :
                       LET m == hits.eventObjects[k]
                       IN /\ PairEntry(run.log, "callback", k, Undefined)
                          /\ m \notin Hovered(Now, hd) =>
                               /\ m \in Hovered(Leave(run), hd)
                               /\ \A h \in HandlersOf(interactions, m, "onHover") :
                                    CallsFor(run.log, c, h) = 1

\* The hover record of a mesh carries a stop, the mesh has an onBlur
\* handler, and a ray misses it while hitting its registered parent, which
\* has an onHover handler and no hover record.
C20_Witness ==
  \E n \in 1..Len(controllers), rays \in TickInputs :
    LET hd   == controllers[n].handedness
        hits == getIntersections(interactions, rays[controllers[n].id])
    IN \E S \in Hovered(Now, hd) \ hits.hitsSet :
         /\ StopRecorded(Now, hd, S)
         /\ HandlersOf(interactions, S, "onBlur") # {}
         /\ \E m \in hits.hitsSet :
              /\ m \notin Hovered(Now, hd)
              /\ HandlersOf(interactions, m, "onHover") # {}

----------------------------------------------------------------------------
\* In log l propagation is stopped at a pair in front of pair j.
StoppedAhead(l, j) == \E p \in 1..Len(l) : l[p].what = "stop" /\ l[p].i < j

\* C21 as stated: while node S has a hover record marked stopped for the
\* handedness of a controller, a discrete event of that controller invokes
\* no handler of a target that follows S in the flat hit list.
C21_RecordedStopSuppressesDiscrete ==
  \A in \in EventInputs :
    LET l    == EventRun(Now, in).log
        hd   == controllers[in.n].handedness
        hits == getIntersections(interactions, in.ray)
    IN \A S \in hits.hitsSet :
         StopRecorded(Now, hd, S) =>
           \A m \in Following(hits.eventObjects, S) :
             \A h \in HandlersOf(interactions, m, in.interaction) : Calls(l, h) = 0

\* C21 amended: a stop recorded on a hover record suppresses the hover
\* dispatch of the frame tick only.  While node S has a hover record marked
\* stopped for the handedness of a controller, a discrete event of that
\* controller whose ray hits S still dispatches every pair of the flat hit
\* list in front of which no handler of this dispatch stops propagation, the
\* pairs behind S included, and invokes the handlers of the triggering kind
\* of the target of each such pair (when no handler changes the registry);
\* propagation is stopped by handlers only, never by the dispatch itself.
C21_DiscreteDispatchIgnoresRecordedStop ==
  \A in \in EventInputs :
    LET run  == EventRun(Now, in)
        l    == run.log
        hd   == controllers[in.n].handedness
        hits == getIntersections(interactions, in.ray)
    IN \A S \in hits.hitsSet :
         StopRecorded(Now, hd, S) =>
           /\ \A p \in 1..Len(l) :
                l[p].what = "stop" =>
                  /\ p > 1
                  /\ IsCall(l, p - 1)
                  /\ l[p - 1].i = l[p].i
                  /\ HandlerDef[l[p - 1].h].act = "stop"
           /\ \A j \in 1..Len(hits.eventObjects) :
             ~StoppedAhead(l, j) =>
               /\ \E p \in 1..Len(l) : l[p].what = "callback" /\ l[p].i = j
               /\ Leave(run).interactions = interactions =>
                    \A h \in HandlersOf(interactions, hits.eventObjects[j], in.interaction) :
                      \E p \in 1..Len(l) : IsCall(l, p) /\ l[p].h = h /\ l[p].i = j

\* The hover record of a mesh carries a stop, and a discrete event of the
\* controller whose ray hits the mesh invokes a handler of a target that
\* follows the mesh in the flat hit list.
C21_Witness ==
  \E in \in EventInputs :
    LET l    == EventRun(Now, in).log
        hd   == controllers[in.n].handedness
        hits == getIntersections(interactions, in.ray)
    IN \E S \in hits.hitsSet :
         /\ StopRecorded(Now, hd, S)
         /\ \E m \in Following(hits.eventObjects, S) :
              \E h \in HandlersOf(interactions, m, in.interaction) : Calls(l, h) > 0

----------------------------------------------------------------------------
\* In the frame tick of log l, node n was the event target of a pair whose
\* intersection is hc, the closest hit of handedness hd.
TargetOfClosest(l, hd, hc, n) ==
  /\ hc # NoIntersection
  /\ \E p \in 1..Len(l) :
       /\ l[p].what = "eval"
       /\ l[p].handedness = hd
       /\ \E j \in 1..Len(l[p].eventObjects) :
            l[p].intersections[j] = hc /\ l[p].eventObjects[j] = n

\* C22: whenever the cancel stage removes a node from the hover map of a
\* handedness, the closest hit of that handedness afterwards does not
\* reference the node: it is not an intersection of the node itself or of a
\* descendant for which the node was the event target.  Checked for the
\* cancel stage of a frame tick and for the one stopPropagation runs in a
\* discrete event that follows a frame tick.
C22_CancelClearsClosestOfRemovedNode ==
  \A rays \in TickInputs :
    LET tick == TickRun(Now, controllers, rays)
        st   == Leave(tick)
    IN /\ st.interactions = interactions =>
            \A hd \in XRHandedness :
              \A n \in Hovered(Now, hd) \ Hovered(st, hd) :
                ~TargetOfClosest(tick.log, hd, st.hoverClosest[hd], n)
       /\ \A in \in EventInputs :
            LET run == EventRun(st, in)
                hd  == controllers[in.n].handedness
            IN Leave(run).interactions = st.interactions =>
                 \A n \in Hovered(st, hd) \ Hovered(Leave(run), hd) :
                   ~TargetOfClosest(tick.log, hd, Leave(run).hoverClosest[hd], n)

----------------------------------------------------------------------------
\* C23 as stated: on each frame in state grabbing, with G the transform of
\* the group, C the pose of the grabbing controller and Iprev the stored
\* inverse, the transform becomes G . Iprev . C and the stored inverse
\* becomes the inverse of C.
C23_FrameMultipliesOnTheRight ==
  (Grabbing /\ previousTransform # NoMatrix) =>
    \A C \in Poses :
      LET step == RayGrabUseFrame(GrabNow, groupMatrix, C)
      IN /\ step.matrix = Multiply(Multiply(groupMatrix, previousTransform), C)
         /\ step.grab = Grab(grabbingController, Invert(C))

\* C23 amended: the transform becomes C . Iprev . G (the pose delta of the
\* controller, C . Iprev, is multiplied on the left of G) and the stored
\* inverse becomes the inverse of C.
C23_FrameMultipliesOnTheLeft ==
  (Grabbing /\ previousTransform # NoMatrix) =>
    \A C \in Poses :
      LET step == RayGrabUseFrame(GrabNow, groupMatrix, C)
      IN /\ step.matrix = Multiply(Multiply(C, previousTransform), groupMatrix)
         /\ step.grab = Grab(grabbingController, Invert(C))

\* RayGrab is grabbing a group that has been moved, and the controller can
\* be at a pose for which the two products differ.
C23_Witness ==
  /\ Grabbing
  /\ previousTransform # NoMatrix
  /\ groupMatrix # Identity
  /\ \E C \in Poses :
       /\ Multiply(Multiply(C, previousTransform), groupMatrix)
            # Multiply(Multiply(groupMatrix, previousTransform), C)
       /\ RayGrabUseFrame(GrabNow, groupMatrix, C).matrix # groupMatrix

----------------------------------------------------------------------------
\* Position q of log l lies in the dispatch of an evaluation: the callback
\* of that evaluation has been called before it.
InDispatch(l, q) ==
  \E p \in 1..(q - 1) :
    /\ l[p].what = "callback"
    /\ \A r \in (p + 1)..(q - 1) : l[r].what # "eval"

\* C24: during a frame tick a stopPropagation call, made by an onHover
\* handler or by the hover callback for a record that carries a stop,
\* invokes no onBlur handler and removes no hover entry: every onBlur
\* handler invoked and every hover entry deleted by the cancel stage in a
\* frame tick comes before the first pair of that controller's evaluation
\* is dispatched.
C24_TickBlursOnlyInCancelStage ==
  \A rays \in TickInputs :
    LET l == TickRun(Now, controllers, rays).log
    IN \A q \in 1..Len(l) :
         (\/ l[q].what = "cancel"
          \/ IsCall(l, q) /\ l[q].type = "onBlur") => ~InDispatch(l, q)

\* A frame tick calls stopPropagation for a target that has a hover record
\* while a node that is not a target of the hits processed so far is
\* hovered and in the hit-set.
C24_Witness ==
  \E rays \in TickInputs, n \in 1..Len(controllers) :
    LET l    == TickRun(Now, controllers, rays).log
        hd   == controllers[n].handedness
        hits == getIntersections(interactions, rays[controllers[n].id])
    IN \E p \in 1..Len(l) :
         /\ l[p].what = "stop"
         /\ l[p].c = controllers[n].id
         /\ \E m \in (Hovered(Now, hd) \cap hits.hitsSet) :
              m \notin TargetsUpTo(hits.eventObjects, l[p].i)

----------------------------------------------------------------------------
\* In log l no handler stops propagation and none registers or unregisters
\* a handler.
Quiet(l) ==
  \A p \in 1..Len(l) :
    /\ l[p].what # "stop"
    /\ IsCall(l, p) => HandlerDef[l[p].h].act \notin {"stop", "remove", "add"}

\* C25: a discrete-event dispatch in which no handler calls stopPropagation
\* and no handler registers or unregisters anything leaves the hover map of
\* every handedness and the closest hits as they are and invokes no onHover
\* and no onBlur handler, whatever the hit-set of the event.
C25_QuietDiscreteEventLeavesHoverAlone ==
  \A in \in EventInputs :
    LET run == EventRun(Now, in)
        l   == run.log
    IN Quiet(l) =>
         /\ Leave(run).hoverState = hoverState
         /\ Leave(run).hoverClosest = hoverClosest
         /\ \A p \in 1..Len(l) :
              /\ l[p].what # "cancel"
              /\ IsCall(l, p) => l[p].type \notin {"onHover", "onBlur"}

\* A node is hovered for the handedness of a controller, and that controller
\* fires an event whose hit-set does not hold the node and whose dispatch
\* invokes a handler, none stopping or changing the registry.
C25_Witness ==
  \E in \in EventInputs :
    LET l    == EventRun(Now, in).log
        hd   == controllers[in.n].handedness
        hits == getIntersections(interactions, in.ray)
    IN /\ Quiet(l)
       /\ Hovered(Now, hd) \ hits.hitsSet # {}
       /\ hits.hitsSet # {}
       /\ hoverClosest[hd] # NoIntersection
       /\ \E p \in 1..Len(l) : IsCall(l, p) /\ l[p].type = in.interaction

----------------------------------------------------------------------------
\* The nodes for which log l invokes a handler of kind type.
NodesCalled(l, type) ==
  {l[p].object : p \in {q \in 1..Len(l) : IsCall(l, q) /\ l[q].type = type}}

\* C26: for one select event no node has both onSelect handlers and
\* onSelectMissed handlers invoked, and a node that is a target of the flat
\* hit list gets no miss notification, whether or not its pair is reached
\* and whatever the handlers do to the registry.
C26_SelectAndMissExclude ==
  \A in \in EventInputs :
    in.interaction = "onSelect" =>
      LET l    == EventRun(Now, in).log
          hits == getIntersections(interactions, in.ray)
      IN /\ NodesCalled(l, "onSelect") \cap NodesCalled(l, "onSelectMissed") = {}
         /\ \A j \in 1..Len(hits.eventObjects) :
              hits.eventObjects[j] \notin NodesCalled(l, "onSelectMissed")

\* A node has onSelect and onSelectMissed handlers; one select event misses
\* it and notifies the miss, and another has it in the hit list behind a
\* target that stops propagation, so that neither kind is invoked for it.
C26_Witness ==
  \E n \in Nodes :
    /\ HandlersOf(interactions, n, "onSelect") # {}
    /\ HandlersOf(interactions, n, "onSelectMissed") # {}
    /\ \E in \in EventInputs :
         /\ in.interaction = "onSelect"
         /\ n \in NodesCalled(EventRun(Now, in).log, "onSelectMissed")
    /\ \E in \in EventInputs :
         /\ in.interaction = "onSelect"
         /\ n \in getIntersections(interactions, in.ray).hitsSet
         /\ \E p \in 1..Len(EventRun(Now, in).log) : EventRun(Now, in).log[p].what = "stop"
         /\ n \notin NodesCalled(EventRun(Now, in).log, "onSelect")

----------------------------------------------------------------------------
\* The pairs of flat hit list eventObjects whose target is node n.
PairsOf(eventObjects, n) == {j \in 1..Len(eventObjects) : eventObjects[j] = n}

\* The pairs for which log l calls the callback of the dispatch with target
\* n.
DispatchedPairsOf(l, n) ==
  {l[p].i : p \in {q \in 1..Len(l) : l[q].what = "callback" /\ l[q].object = n}}

\* C27: in a discrete-event dispatch that leaves the registry as it is, each
\* handler of a node for the triggering kind is invoked as many times as
\* there are dispatched pairs of the flat hit list whose target is the node;
\* when nothing stops propagation, these are all the pairs of the node, one
\* for each intersection through which the node is reached.
C27_HandlerInvokedOncePerPair ==
  \A in \in EventInputs :
    LET run  == EventRun(Now, in)
        l    == run.log
        hits == getIntersections(interactions, in.ray)
    IN Leave(run).interactions = interactions =>
         \A n \in MapKeys(interactions) :
           \A h \in HandlersOf(interactions, n, in.interaction) :
             /\ Calls(l, h) = Cardinality(DispatchedPairsOf(l, n))
             /\ Stops(l) = {} => Calls(l, h) = Cardinality(PairsOf(hits.eventObjects, n))

\* A group with a handler of the triggering kind is reached through two
\* intersections of one ray, on two meshes below it, and nothing stops: the
\* handler is invoked twice for the one event.
C27_Witness ==
  \E in \in EventInputs :
    LET l    == EventRun(Now, in).log
        hits == getIntersections(interactions, in.ray)
    IN /\ Stops(l) = {}
       /\ \E n \in MapKeys(interactions) :
            /\ \E j, k \in PairsOf(hits.eventObjects, n) :
                 hits.intersections[j].object # hits.intersections[k].object
            /\ \E h \in HandlersOf(interactions, n, in.interaction) : Calls(l, h) = 2

----------------------------------------------------------------------------
\* The log of the dispatch of event e, fired when the dispatcher is in
\* state st.
GrabEventLogFrom(st, e) ==
  triggerEvent(Enter(st), app.onSelectMissed, e.interaction, controllers[e.n], e.ray).log

\* C28: while RayGrab is grabbing with controller A, a select-start of
\* another controller B that is dispatched to the group replaces the
\* captured controller and the stored inverse pose by those of B; after it
\* a frame follows the pose of B, a select-end of A leaves the grab as it
\* is, and of all events only a select-end of B returns RayGrab to idle.
C28_SecondSelectStartTakesOver ==
  (Grabbing /\ previousTransform # NoMatrix) =>
    \A in \in EventInputs :
      LET B   == controllers[in.n].id
          run == EventRun(Now, in)
      IN (/\ in.interaction = "onSelectStart"
          /\ B # grabbingController
          /\ GrabHandlerCalled(run.log)) =>
           /\ \A pose \in Poses :
                LET grab == GrabAfterEvent(GrabNow, in.interaction, controllers[in.n],
                                           pose, run.log)
                IN /\ grab = Grab(B, Invert(pose))
                   /\ \A matrixWorldOf \in [ControllerIds -> Poses] :
                        LET step == RayGrabUseFrameOf(grab, groupMatrix, matrixWorldOf)
                        IN /\ step.matrix =
                                Multiply(Multiply(matrixWorldOf[B], Invert(pose)),
                                         groupMatrix)
                           /\ step.grab = Grab(B, Invert(matrixWorldOf[B]))
           /\ \A e \in EventInputs :
                LET l == GrabEventLogFrom(Leave(run), e)
                IN \A pose \in Poses, next \in PosesRead(e.interaction) :
                     LET grab  == Grab(B, Invert(pose))
                         after == GrabAfterEvent(grab, e.interaction, controllers[e.n],
                                                 next, l)
                     IN /\ (e.interaction = "onSelectEnd" /\ controllers[e.n].id # B) =>
                             after = grab
                        /\ after.grabbingController = NoController
                             <=> (e.interaction = "onSelectEnd" /\ controllers[e.n].id = B)

\* RayGrab is grabbing with one controller and the select-start of another
\* controller, at a pose other than the one stored, reaches the group.
C28_Witness ==
  /\ Grabbing
  /\ previousTransform # NoMatrix
  /\ groupMatrix # Identity
  /\ \E in \in GrabEventInputs :
       /\ in.interaction = "onSelectStart"
       /\ controllers[in.n].id # grabbingController
       /\ GrabHandlerCalled(GrabEventRun(in).log)
       /\ Invert(in.matrixWorld) # previousTransform
       /\ \E m \in 1..Len(controllers) : controllers[m].id = grabbingController

----------------------------------------------------------------------------
(* useHitTest.                                                             *)

\* C29: whenever the stored hit test source is defined, it was obtained
\* from the session that is running: after the end event of a session the
\* stored source is undefined until a request made on a later session
\* resolves, however frame ticks, the resolutions of the two requests and
\* the end event interleave.
C29_StoredSourceIsOfRunningSession ==
  hitTestSource # NoSource => hitTestSource = session

====
